---- MODULE Spec2Model ----
(***************************************************************************)
(* Model of the movie emotion corpus builder (src/Top_250_crawler.py) and  *)
(* of the emotion movie recommender (src/emotion_movie_recommender.py).    *)
(*                                                                         *)
(* Numbers.  Normalised emotion scores are kept in thousandths (the code   *)
(* rounds them to 3 decimals): 1000 is 1.0.  Similarities are kept in      *)
(* thousandths too.  Text is a sequence of fragments of a small vocabulary *)
(* (the fragments are joined by single spaces); the number of times a      *)
(* lexicon word occurs in a fragment is tabulated in Occ.  Non-ASCII       *)
(* strings of the source are written in ASCII (jiaofu is the title         *)
(* U+6559 U+7236, "very-joy" is the strong tag of joy, and so on).         *)
(***************************************************************************)
EXTENDS Integers, Sequences, FiniteSets, TLC

VARIABLES
    \* ---- corpus builder: one call of analyze_movie_emotion and its export
    overview,          \* the overview text
    tagline,           \* the tagline text
    keywords,          \* the keyword list
    genres,            \* the genre list
    primary_scores,    \* emotion_scores after the primary pass (NoValue before)
    fallback_scores,   \* whether fallback_emotion_analysis was called, and what it returned
    analysis,          \* what analyze_movie_emotion returned (NoValue before)
    json_corpus,       \* the JSON file save_data wrote (a list of records)
    formatted_movies,  \* what load_movies_from_json returned
    stage,             \* position of the builder/loader pipeline
    \* ---- tag generator: one call of generate_mood_tags on any profile
    tag_profile,       \* the emotion_profile passed in
    tag_result,        \* the list returned
    tag_stage,
    \* ---- recommender: the index and the last search call
    movies,               \* self.movies
    semantic_embeddings,  \* self.semantic_embeddings (NoValue: None)
    emotion_vectors,      \* self.emotion_vectors (NoVectors: None)
    emotion_labels,       \* self.emotion_labels
    emotion_profiles,     \* self.emotion_profiles
    call,                 \* the last search call and its arguments
    results,              \* what the last search call returned
    \* ---- builder: one run of crawl_top_rated_movies
    num_movies,           \* the num_movies argument
    page,                 \* the page the list loop is at
    movie_list,           \* movie_list
    collected_ids,        \* collected_ids
    all_movies,           \* all_movies
    next_movie,           \* i of the movie loop
    page_log,             \* the ranked-list requests made: [page, ok]
    detail_log,           \* the detail requests made: [id, ok]
    review_log,           \* the reviews requests made: [id, ok]
    crawl_pc,             \* "pages", "movies", "done"; "off": no crawl in the run
    \* ---- recommender: the load stage of main
    json_file,            \* the JSON corpus file: its state and its content
    csv_file,             \* the CSV file: its state and its rows
    loaded,               \* main's movies
    load_log,             \* the failures the loaders printed
    load_pc,              \* "json", "csv", "sample", "done"; "off": no load in the run
    \* ---- recommender: the interactive loop of main
    loop_pc,              \* "prompt": at the mode prompt; "exited"; "off": no loop in the run
    prompts,              \* the number of mode prompts issued
    last                  \* the last iteration: what was typed, printed and searched

scorerVars == <<overview, tagline, keywords, genres, primary_scores, fallback_scores, analysis,
                json_corpus, formatted_movies, stage>>

tagVars == <<tag_profile, tag_result, tag_stage>>

indexVars == <<movies, semantic_embeddings, emotion_vectors, emotion_labels,
               emotion_profiles>>

searchVars == <<indexVars, call, results>>

crawlVars == <<num_movies, page, movie_list, collected_ids, all_movies, next_movie,
               page_log, detail_log, review_log, crawl_pc>>

loadVars == <<json_file, csv_file, loaded, load_log, load_pc>>

loopVars == <<loop_pc, prompts, last>>

vars == <<scorerVars, tagVars, searchVars, crawlVars, loadVars, loopVars>>

NoValue == "none"

-----------------------------------------------------------------------------
(* Bounds of the model *)

MaxOverviewWords == 3

-----------------------------------------------------------------------------
(* Generic helpers: sequences and insertion-ordered dictionaries.  A Python *)
(* dict is a sequence of [k, v] entries in insertion order.                 *)

RECURSIVE SumSeq(_)
SumSeq(s) == IF s = <<>> THEN 0 ELSE Head(s) + SumSeq(Tail(s))

SeqsUpTo(S, n) == UNION {[1..m -> S] : m \in 0..n}

Range(s) == {s[i] : i \in 1..Len(s)}

\* one item of a dict
Entry(key, val) == [k |-> key, v |-> val]

DictHas(d, key) == \E i \in 1..Len(d) : d[i].k = key

DictGet(d, key, default) ==
    IF DictHas(d, key)
    THEN d[CHOOSE i \in 1..Len(d) : d[i].k = key].v
    ELSE default

DictPut(d, key, val) ==
    IF DictHas(d, key)
    THEN [i \in 1..Len(d) |-> IF d[i].k = key THEN [k |-> key, v |-> val] ELSE d[i]]
    ELSE Append(d, [k |-> key, v |-> val])

DictKeys(d) == [i \in 1..Len(d) |-> d[i].k]

DictSum(d) == SumSeq([i \in 1..Len(d) |-> d[i].v])

\* d with every entry of add added to it (d[k] = d.get(k, 0) + v, in add's order)
RECURSIVE DictAddAll(_, _)
DictAddAll(d, add) ==
    IF add = <<>> THEN d
    ELSE DictAddAll(DictPut(d, Head(add).k, DictGet(d, Head(add).k, 0) + Head(add).v),
                    Tail(add))

\* sorted(items, key=value, reverse=True): stable, equal values keep their order
RECURSIVE SortByValueDesc(_)
SortByValueDesc(s) ==
    IF s = <<>> THEN <<>>
    ELSE LET rest == SortByValueDesc(SubSeq(s, 1, Len(s) - 1))
             x    == s[Len(s)]
             n    == Cardinality({i \in 1..Len(rest) : rest[i].v >= x.v})
         IN  SubSeq(rest, 1, n) \o <<x>> \o SubSeq(rest, n + 1, Len(rest))

\* round(num / den, 3) in thousandths.  Python rounds the double to the nearest
\* thousandth; a decimal midpoint needs den divisible by 16 and is then
\* rounded to even when the quotient is a binary fraction.
Round3Trunc(num, den) == (num * 1000) \div den

Round3(num, den) ==
    LET q == (num * 1000) \div den
        r == (num * 1000) % den
    IN  IF 2 * r < den THEN q
        ELSE IF 2 * r > den THEN q + 1
        ELSE IF q % 2 = 0 THEN q ELSE q + 1

-----------------------------------------------------------------------------
(* The ten emotion categories *)

\* keys of self.emotion_lexicon, in the order the dict literal lists them
LexiconOrder == <<"joy", "sadness", "anger", "fear", "love", "hope",
                  "loneliness", "inspiration", "tension", "peace">>

\* keys of extended_emotion_lexicon, in the order the dict literal lists them
ExtendedOrder == <<"joy", "sadness", "anger", "fear", "love", "hope",
                   "loneliness", "tension", "peace", "inspiration">>

\* self.fixed_emotion_labels of the recommender
fixed_emotion_labels == <<"joy", "sadness", "anger", "fear", "love", "hope",
                          "loneliness", "inspiration", "tension", "peace">>

Categories == Range(fixed_emotion_labels)

-----------------------------------------------------------------------------
(* Text: fragments, and the lexicon words that occur in them *)

\* happy, peaceful, sad, rage, war, die: the English words.  jiaofu: the
\* two-character title of the first entry of known_movie_emotions.  filler:
\* 46 characters in which no word of any table occurs.  The keyword lists
\* add sadness, which holds "sad" inside a longer word, and the ten words
\* of TenWords.
Vocab == {"happy", "peaceful", "sad", "rage", "war", "jiaofu", "die", "filler"}

\* len(fragment)
TokLen(tok) ==
    CASE tok = "happy" -> 5
      [] tok = "peaceful" -> 8
      [] tok = "sad" -> 3
      [] tok = "rage" -> 4
      [] tok = "war" -> 3
      [] tok = "jiaofu" -> 2
      [] tok = "die" -> 3
      [] tok = "death" -> 5
      [] tok = "sadness" -> 7
      [] tok = "moving" -> 6
      [] tok \in {"grief", "angry", "scary", "adore", "faith", "alone", "tense",
                  "quiet"} -> 5
      [] tok = "filler" -> 46
      [] OTHER -> 1

\* len(word) of a word of the tables
WordLen(word) ==
    CASE word \in {"sad", "war", "die"} -> 3
      [] word \in {"rage", "love", "dead"} -> 4
      [] word \in {"happy", "peace", "death", "fight", "grief", "angry", "scary",
                   "adore", "faith", "alone", "tense", "quiet"} -> 5
      [] word = "moving" -> 6
      [] word = "sadness" -> 7
      [] word = "peaceful" -> 8
      [] word = "battle" -> 6
      [] word = "romance" -> 7
      [] word = "jiaofu" -> 2
      [] OTHER -> 2

\* fragment.count(word): the non-overlapping occurrences of word in the fragment
Occ(word, tok) ==
    CASE word = tok /\ tok # "filler" -> 1
      [] word = "peace" /\ tok = "peaceful" -> 1
      [] word = "sad" /\ tok = "sadness" -> 1
      [] OTHER -> 0

\* len(re.findall(r'\bword\b', fragment)): a fragment is one word, so the
\* word matches between word boundaries only when it is the whole fragment
BoundaryOcc(word, tok) == IF word = tok /\ tok # "filler" THEN 1 ELSE 0

\* text.count(word)
Count(word, text) == SumSeq([i \in 1..Len(text) |-> Occ(word, text[i])])

\* len(re.findall(r'\bword\b', text))
BoundaryCount(word, text) == SumSeq([i \in 1..Len(text) |-> BoundaryOcc(word, text[i])])

\* word in text
Contains(word, text) == \E i \in 1..Len(text) : Occ(word, text[i]) > 0

\* len(text) of fragments joined by single spaces
StrLen(text) ==
    IF text = <<>> THEN 0
    ELSE SumSeq([i \in 1..Len(text) |-> TokLen(text[i])]) + (Len(text) - 1)

-----------------------------------------------------------------------------
(* Emotion Scorer: TMDBTopRatedCrawler.analyze_movie_emotion *)

\* self.emotion_lexicon, restricted to the words that occur in some fragment
\* of Vocab (every other word counts 0 in every text of the model)
emotion_lexicon(emotion) ==
    CASE emotion = "joy" -> <<"happy">>
      [] emotion = "sadness" -> <<"sad", "sadness", "grief">>
      [] emotion = "anger" -> <<"angry", "rage">>
      [] emotion = "fear" -> <<"scary">>
      [] emotion = "love" -> <<"adore">>
      [] emotion = "hope" -> <<"faith">>
      [] emotion = "loneliness" -> <<"alone">>
      [] emotion = "inspiration" -> <<"moving">>
      [] emotion = "tension" -> <<"tense">>
      [] emotion = "peace" -> <<"peace", "peaceful", "quiet">>

\* the score of a word when the short words are counted as substrings too
WordScoreSubstring(word, text) ==
    Count(word, text) * (IF WordLen(word) > 4 THEN 2 ELSE 1)

\* the score one lexicon word adds in the primary pass
WordScore(word, text) ==
    IF WordLen(word) <= 3
    THEN BoundaryCount(word, text)
    ELSE Count(word, text) * (IF WordLen(word) > 4 THEN 2 ELSE 1)

\* the score of one category in the primary pass
PrimaryScore(emotion, text) ==
    SumSeq([i \in 1..Len(emotion_lexicon(emotion)) |->
               WordScore(emotion_lexicon(emotion)[i], text)])

\* emotion_scores after the primary pass: the categories with score > 0
PrimaryScores(text) ==
    LET all == [i \in 1..Len(LexiconOrder) |->
                   [k |-> LexiconOrder[i], v |-> PrimaryScore(LexiconOrder[i], text)]]
        Positive(e) == e.v > 0
    IN  SelectSeq(all, Positive)

\* extended_emotion_lexicon, restricted like emotion_lexicon
extended_emotion_lexicon(emotion) ==
    CASE emotion = "joy" -> <<"happy">>
      [] emotion = "sadness" -> <<"sad", "death">>
      [] emotion = "anger" -> <<"rage", "fight", "war", "battle">>
      [] emotion = "love" -> <<"love", "romance">>
      [] emotion = "peace" -> <<"peace", "peaceful">>
      [] OTHER -> <<>>

\* strategy 1: each word of the extended lexicon present in the text adds 2
\* when longer than 4 characters and 1 otherwise
ExtendedScore(emotion, title_text) ==
    SumSeq([i \in 1..Len(extended_emotion_lexicon(emotion)) |->
               IF Contains(extended_emotion_lexicon(emotion)[i], title_text)
               THEN (IF WordLen(extended_emotion_lexicon(emotion)[i]) > 4 THEN 2 ELSE 1)
               ELSE 0])

ExtendedScores(title_text) ==
    LET all == [i \in 1..Len(ExtendedOrder) |->
                   [k |-> ExtendedOrder[i], v |-> ExtendedScore(ExtendedOrder[i], title_text)]]
        Positive(e) == e.v > 0
    IN  SelectSeq(all, Positive)

\* genre_emotion_map.get(genre), for the genres of the model
genre_emotion_map(genre) ==
    CASE genre = "Comedy" -> "joy"
      [] genre = "Drama" -> "sadness"
      [] genre = "Horror" -> "fear"
      [] OTHER -> NoValue

\* strategy 2: every mapped genre adds 2 to its category
RECURSIVE GenreScores(_, _)
GenreScores(scores, gs) ==
    IF gs = <<>> THEN scores
    ELSE LET emotion == genre_emotion_map(Head(gs))
         IN  GenreScores(IF emotion # NoValue
                         THEN DictPut(scores, emotion, DictGet(scores, emotion, 0) + 2)
                         ELSE scores,
                         Tail(gs))

\* known_movie_emotions, restricted to the titles that occur in some fragment
known_movie_emotions ==
    << [title |-> "jiaofu",
        emotions |-> << [k |-> "tension", v |-> 3], [k |-> "anger", v |-> 2],
                        [k |-> "sadness", v |-> 2] >>] >>

\* strategy 3: the first known title found in the overview adds its scores
KnownMovieScores(scores, ov) ==
    LET hits == {i \in 1..Len(known_movie_emotions) :
                    Contains(known_movie_emotions[i].title, ov)}
    IN  IF hits = {} THEN scores
        ELSE LET first == CHOOSE i \in hits : \A j \in hits : i <= j
             IN  DictAddAll(scores, known_movie_emotions[first].emotions)

AnyIn(words, text) == \E w \in words : Contains(w, text)

\* strategy 4 leaving emotion_scores empty
DefaultScoresNone(ov, tl) == <<>>

\* strategy 4: the guess from the text length and a few trigger words
DefaultScores(ov, tl) ==
    LET title_text  == tl \o ov
        text_length == StrLen(ov) + StrLen(tl)
    IN  IF text_length < 50
        THEN << [k |-> "hope", v |-> 2], [k |-> "inspiration", v |-> 1],
                [k |-> "joy", v |-> 1] >>
        ELSE IF AnyIn({"war", "battle", "fight"}, title_text)
        THEN << [k |-> "fear", v |-> 3], [k |-> "tension", v |-> 2],
                [k |-> "anger", v |-> 1] >>
        ELSE IF AnyIn({"love", "romance"}, title_text)
        THEN << [k |-> "love", v |-> 4], [k |-> "joy", v |-> 2],
                [k |-> "hope", v |-> 1] >>
        ELSE IF AnyIn({"death", "die", "dead"}, title_text)
        THEN << [k |-> "sadness", v |-> 4], [k |-> "hope", v |-> 1],
                [k |-> "inspiration", v |-> 1] >>
        ELSE << [k |-> "hope", v |-> 2], [k |-> "inspiration", v |-> 2],
                [k |-> "joy", v |-> 1], [k |-> "sadness", v |-> 1] >>

\* TMDBTopRatedCrawler.fallback_emotion_analysis
fallback_emotion_analysis(ov, tl, kw, gs) ==
    LET title_text == tl \o ov
        s1 == ExtendedScores(title_text)
        s2 == IF gs # <<>> /\ s1 = <<>> THEN GenreScores(s1, gs) ELSE s1
        s3 == KnownMovieScores(s2, ov)
    IN  IF s3 = <<>> THEN DefaultScores(ov, tl) ELSE s3

\* step 3 of analyze_movie_emotion: round(score / total_score, 3)
NormalizedScores(scores) ==
    LET total_score == DictSum(scores)
    IN  IF total_score > 0
        THEN [i \in 1..Len(scores) |->
                 [k |-> scores[i].k, v |-> Round3(scores[i].v, total_score)]]
        ELSE <<>>

\* the first 3 of the categories sorted by score, those of at least 0.1
DominantEmotionsAtLeast(normalized_scores) ==
    LET sorted_emotions == SortByValueDesc(normalized_scores)
        top == SubSeq(sorted_emotions, 1,
                      IF Len(sorted_emotions) < 3 THEN Len(sorted_emotions) ELSE 3)
        AtLeast(e) == e.v >= 100
    IN  DictKeys(SelectSeq(top, AtLeast))

\* step 4: the first 3 of the categories sorted by score, those above 0.1
DominantEmotions(normalized_scores) ==
    LET sorted_emotions == SortByValueDesc(normalized_scores)
        top == SubSeq(sorted_emotions, 1,
                      IF Len(sorted_emotions) < 3 THEN Len(sorted_emotions) ELSE 3)
        Above(e) == e.v > 100
    IN  DictKeys(SelectSeq(top, Above))

\* the primary pass reading tagline + overview only
EmotionScoresWithoutKeywords(ov, tl, kw, gs) ==
    LET primary == PrimaryScores(tl \o ov)
    IN  IF primary = <<>> THEN fallback_emotion_analysis(ov, tl, kw, gs) ELSE primary

\* emotion_scores of analyze_movie_emotion before normalisation: the primary
\* pass over tagline + overview + keywords, or the fallback when it is empty
EmotionScores(ov, tl, kw, gs) ==
    LET combined_text == tl \o ov \o kw
        primary == PrimaryScores(combined_text)
    IN  IF primary = <<>> THEN fallback_emotion_analysis(ov, tl, kw, gs) ELSE primary

-----------------------------------------------------------------------------
(* Tag Generator: TMDBTopRatedCrawler.generate_mood_tags.  A tag is a pair: *)
(* <<"very", c>> and <<"somewhat", c>> are the strong and the moderate tag *)
(* of category c, <<"tag", name>> is a fixed tag.                          *)

GenericTags == << <<"tag", "emotionally-rich">>, <<"tag", "thought-provoking">>,
                  <<"tag", "worth-watching">> >>

\* the base tags with the strong tag only above 0.15
BaseTagsAbove(profile) ==
    LET Tagged(e) == e.v >= 50
        tagged == SelectSeq(profile, Tagged)
    IN  [i \in 1..Len(tagged) |->
            IF tagged[i].v > 150 THEN <<"very", tagged[i].k>>
            ELSE <<"somewhat", tagged[i].k>>]

\* the base tag of each category, in the profile's order
BaseTags(profile) ==
    LET Tagged(e) == e.v >= 50
        tagged == SelectSeq(profile, Tagged)
    IN  [i \in 1..Len(tagged) |->
            IF tagged[i].v >= 150 THEN <<"very", tagged[i].k>>
            ELSE <<"somewhat", tagged[i].k>>]

\* the combination tags
ComboTags(profile) ==
    (IF DictHas(profile, "joy") /\ DictHas(profile, "love")
        /\ DictGet(profile, "joy", 0) > 100 /\ DictGet(profile, "love", 0) > 100
     THEN << <<"tag", "heartwarming">> >> ELSE <<>>)
    \o (IF DictHas(profile, "sadness") /\ DictHas(profile, "hope")
           /\ DictGet(profile, "sadness", 0) > 100 /\ DictGet(profile, "hope", 0) > 50
        THEN << <<"tag", "sad-but-hopeful">> >> ELSE <<>>)
    \o (IF DictHas(profile, "fear") /\ DictGet(profile, "fear", 0) > 150
        THEN << <<"tag", "thrilling">> >> ELSE <<>>)
    \o (IF DictHas(profile, "peace") /\ DictGet(profile, "peace", 0) > 100
        THEN << <<"tag", "peace-of-mind">> >> ELSE <<>>)
    \o (IF DictHas(profile, "inspiration") /\ DictGet(profile, "inspiration", 0) > 100
        THEN << <<"tag", "inspiring">> >> ELSE <<>>)

\* max(profile.items(), key=score)[0]: the first category with the top score
MaxEmotion(profile) ==
    LET i == CHOOSE i \in 1..Len(profile) :
                 /\ \A j \in 1..Len(profile) : profile[j].v <= profile[i].v
                 /\ \A j \in 1..(i - 1) : profile[j].v < profile[i].v
    IN  profile[i].k

\* the two generic tags added when fewer than 2 tags were made
FillerTags(profile) ==
    IF MaxEmotion(profile) \in {"joy", "love"}
    THEN << <<"tag", "emotionally-rich">>, <<"tag", "worth-recommending">> >>
    ELSE IF MaxEmotion(profile) \in {"sadness", "fear", "tension"}
    THEN << <<"tag", "thought-provoking">>, <<"tag", "emotionally-intense">> >>
    ELSE << <<"tag", "sincere-emotion">>, <<"tag", "worth-watching">> >>

\* tags, as built before the final list(set(tags))[:6]
MoodTagList(profile) ==
    LET tags == BaseTags(profile) \o ComboTags(profile)
    IN  IF Len(tags) < 2 THEN tags \o FillerTags(profile) ELSE tags

\* s without the later repetitions of an element
RECURSIVE Dedup(_)
Dedup(s) ==
    IF s = <<>> THEN <<>>
    ELSE LET front == Dedup(SubSeq(s, 1, Len(s) - 1))
         IN  IF s[Len(s)] \in Range(front) THEN front ELSE Append(front, s[Len(s)])

\* the slices without the cap of 6
KeptAll(S) == {S}

\* [:6] of a set's list: the set iterates in an order the program does not
\* choose, so any min(6, n) of its n elements may be the ones kept
KeptTags(S) ==
    {K \in SUBSET S : Cardinality(K) = (IF Cardinality(S) < 6 THEN Cardinality(S) ELSE 6)}

\* the lists generate_mood_tags may return.  The order of the returned list
\* is the set's iteration order; the model lists the kept tags in the order
\* they were built.
generate_mood_tags(profile) ==
    IF profile = <<>> THEN {GenericTags}
    ELSE LET tags == Dedup(MoodTagList(profile))
         IN  {LET Kept(t) == t \in K IN SelectSeq(tags, Kept) : K \in KeptTags(Range(tags))}

\* the results analyze_movie_emotion may return
analyze_movie_emotion(ov, tl, kw, gs) ==
    LET normalized_scores == NormalizedScores(EmotionScores(ov, tl, kw, gs))
    IN  {[emotion_profile |-> normalized_scores,
          dominant_emotions |-> DominantEmotions(normalized_scores),
          mood_tags |-> mood_tags,
          emotional_complexity |-> Len(normalized_scores)] :
            mood_tags \in generate_mood_tags(normalized_scores)}

-----------------------------------------------------------------------------
(* Exporter and loader of the JSON corpus *)

\* dict.get(field, default) on a record
Get(rec, field, default) == IF field \in DOMAIN rec THEN rec[field] ELSE default

\* movie_info of get_top_rated_movies for one entry of a ranked-list page.
\* vote_average is in tenths.
MovieInfo(movie_id, ov, rank) ==
    [id |-> movie_id,
     title |-> "title",
     original_title |-> "original_title",
     overview |-> ov,
     release_date |-> "1994-09-23",
     vote_average |-> 87,
     vote_count |-> 1000,
     popularity |-> 50,
     poster_path |-> "poster",
     top_rated_rank |-> rank]

\* details of get_movie_details when the call succeeds
Details(tl, kw, gs) ==
    [genres |-> gs,
     runtime |-> 142,
     budget |-> 0,
     revenue |-> 0,
     director |-> "director",
     cast |-> <<"actor">>,
     keywords |-> kw,
     tagline |-> tl,
     status |-> "Released",
     imdb_id |-> "tt",
     production_companies |-> <<>>,
     production_countries |-> <<>>]

\* {}: what get_movie_details returns when the call fails
NoDetails == <<>>

\* release_date[:4] if release_date else ''
ReleaseYear(release_date) == IF release_date = "" THEN "" ELSE "1994"

\* movie_data of crawl_top_rated_movies for the i-th movie of the list
MovieData(i, movie, details, reviews, emotion_analysis) ==
    [id |-> movie.id,
     title |-> Get(movie, "title", ""),
     original_title |-> Get(movie, "original_title", ""),
     release_date |-> Get(movie, "release_date", ""),
     release_year |-> ReleaseYear(Get(movie, "release_date", "")),
     overview |-> Get(movie, "overview", <<>>),
     vote_average |-> Get(movie, "vote_average", 0),
     vote_count |-> Get(movie, "vote_count", 0),
     popularity |-> Get(movie, "popularity", 0),
     tmdb_top_rated_rank |-> Get(movie, "top_rated_rank", i),
     genres |-> Get(details, "genres", <<>>),
     runtime |-> Get(details, "runtime", 0),
     director |-> Get(details, "director", ""),
     cast |-> Get(details, "cast", <<>>),
     tagline |-> Get(details, "tagline", <<>>),
     keywords |-> Get(details, "keywords", <<>>),
     imdb_id |-> Get(details, "imdb_id", ""),
     emotion_profile |-> emotion_analysis.emotion_profile,
     dominant_emotions |-> emotion_analysis.dominant_emotions,
     mood_tags |-> emotion_analysis.mood_tags,
     emotional_complexity |-> emotion_analysis.emotional_complexity,
     reviews |-> reviews,
     review_count |-> Len(reviews),
     source |-> "tmdb_top_rated",
     crawl_date |-> "now"]

\* the loader's fixed_emotion_profile: zero-filled to the 10 labels, then
\* divided by its total and rounded to 3 decimals
FixedEmotionProfile(emotion_profile) ==
    LET filled == [i \in 1..Len(fixed_emotion_labels) |->
                      [k |-> fixed_emotion_labels[i],
                       v |-> DictGet(emotion_profile, fixed_emotion_labels[i], 0)]]
        total == DictSum(filled)
    IN  IF total > 0
        THEN [i \in 1..Len(filled) |-> [k |-> filled[i].k, v |-> Round3(filled[i].v, total)]]
        ELSE filled

\* movie_record of load_movies_from_json (the default '' of a text is the
\* empty sequence of fragments)
MovieRecord(movie) ==
    [id |-> Get(movie, "id", ""),
     title |-> Get(movie, "title", ""),
     original_title |-> Get(movie, "original_title", ""),
     year |-> Get(movie, "year", ""),
     plot |-> Get(movie, "plot", <<>>),
     tagline |-> Get(movie, "tagline", <<>>),
     genres |-> Get(movie, "genres", <<>>),
     rating |-> Get(movie, "rating", 0),
     runtime |-> Get(movie, "runtime", 0),
     emotion_profile |-> FixedEmotionProfile(Get(movie, "emotion_profile", <<>>)),
     mood_tags |-> Get(movie, "mood_tags", <<>>),
     dominant_emotions |-> Get(movie, "dominant_emotions", <<>>),
     emotional_complexity |-> Get(movie, "emotional_complexity", 0),
     source |-> Get(movie, "source", "unknown")]

\* EmotionMovieRecommender.load_movies_from_json on a readable file
load_movies_from_json(data) == [i \in 1..Len(data) |-> MovieRecord(data[i])]

-----------------------------------------------------------------------------
(* The builder pipeline on one movie: analyse, export, reload *)

TaglineChoices == {<<>>, <<"happy">>}
\* one keyword of each of the ten categories, each of them scoring 2
TenWords == <<"happy", "grief", "angry", "scary", "adore", "faith", "alone",
              "moving", "tense", "quiet">>

KeywordChoices == {<<>>, <<"sad">>, <<"death">>, <<"sadness">>, TenWords}
GenreChoices == {<<>>, <<"Drama">>, <<"Comedy", "Drama">>, <<"Western">>}

\* the builder pipeline is not part of the run
ScorerIdle ==
    /\ overview = <<>>
    /\ tagline = <<>>
    /\ keywords = <<>>
    /\ genres = <<>>
    /\ primary_scores = NoValue
    /\ fallback_scores = [called |-> FALSE, scores |-> <<>>]
    /\ analysis = NoValue
    /\ json_corpus = NoValue
    /\ formatted_movies = NoValue
    /\ stage = "off"

\* no separate call of generate_mood_tags is part of the run
TagsIdle ==
    /\ tag_profile = <<>>
    /\ tag_result = <<>>
    /\ tag_stage = "off"

\* no crawl is part of the run
CrawlIdle ==
    /\ num_movies = 0
    /\ page = 1
    /\ movie_list = <<>>
    /\ collected_ids = {}
    /\ all_movies = <<>>
    /\ next_movie = 1
    /\ page_log = <<>>
    /\ detail_log = <<>>
    /\ review_log = <<>>
    /\ crawl_pc = "off"

\* no load stage is part of the run
LoadIdle ==
    /\ json_file = [state |-> "missing"]
    /\ csv_file = [state |-> "missing"]
    /\ loaded = <<>>
    /\ load_log = <<>>
    /\ load_pc = "off"

\* no interactive loop is part of the run
LoopIdle ==
    /\ loop_pc = "off"
    /\ prompts = 0
    /\ last = [mode |-> "none"]

\* self.emotion_vectors = None (an indexed matrix has at least one row)
NoVectors == <<>>

\* EmotionMovieRecommender.__init__: nothing indexed, no call made
RecommenderInit ==
    /\ movies = <<>>
    /\ semantic_embeddings = NoValue
    /\ emotion_vectors = NoVectors
    /\ emotion_labels = <<>>
    /\ emotion_profiles = <<>>
    /\ call = [op |-> "none"]
    /\ results = <<>>

ScorerInit ==
    /\ TagsIdle
    /\ RecommenderInit
    /\ CrawlIdle
    /\ LoadIdle
    /\ LoopIdle
    /\ overview \in SeqsUpTo(Vocab, MaxOverviewWords)
    /\ tagline \in TaglineChoices
    /\ keywords \in KeywordChoices
    /\ genres \in GenreChoices
    \* the ten-keyword list comes with one overview word at most
    /\ keywords = TenWords => (Len(overview) <= 1 /\ tagline = <<>> /\ genres = <<>>)
    /\ primary_scores = NoValue
    /\ fallback_scores = [called |-> FALSE, scores |-> <<>>]
    /\ analysis = NoValue
    /\ json_corpus = NoValue
    /\ formatted_movies = NoValue
    /\ stage = "input"

AnalyzeMovieEmotion ==
    /\ stage = "input"
    /\ \E result \in analyze_movie_emotion(overview, tagline, keywords, genres) :
          analysis' = result
    /\ primary_scores' = PrimaryScores(tagline \o overview \o keywords)
    /\ fallback_scores' =
          IF PrimaryScores(tagline \o overview \o keywords) = <<>>
          THEN [called |-> TRUE,
                scores |-> fallback_emotion_analysis(overview, tagline, keywords, genres)]
          ELSE [called |-> FALSE, scores |-> <<>>]
    /\ stage' = "analyzed"
    /\ UNCHANGED <<overview, tagline, keywords, genres, json_corpus, formatted_movies>>
    /\ UNCHANGED <<tagVars, searchVars, crawlVars, loadVars, loopVars>>

\* save_data: json.dump of the movie data (json keeps numbers, strings, lists
\* and the order of a dict's keys)
SaveData ==
    /\ stage = "analyzed"
    /\ json_corpus' = <<MovieData(1, MovieInfo(278, overview, 1),
                                  Details(tagline, keywords, genres), <<>>, analysis)>>
    /\ stage' = "saved"
    /\ UNCHANGED <<overview, tagline, keywords, genres, primary_scores, fallback_scores, analysis,
                   formatted_movies>>
    /\ UNCHANGED <<tagVars, searchVars, crawlVars, loadVars, loopVars>>

LoadMoviesFromJson ==
    /\ stage = "saved"
    /\ formatted_movies' = load_movies_from_json(json_corpus)
    /\ stage' = "loaded"
    /\ UNCHANGED <<overview, tagline, keywords, genres, primary_scores, fallback_scores, analysis,
                   json_corpus>>
    /\ UNCHANGED <<tagVars, searchVars, crawlVars, loadVars, loopVars>>

ScorerNext == AnalyzeMovieEmotion \/ SaveData \/ LoadMoviesFromJson

SpecScorer == ScorerInit /\ [][ScorerNext]_vars

-----------------------------------------------------------------------------
(* Claims about the Emotion Scorer *)

Abs(x) == IF x < 0 THEN -x ELSE x

\* C1: whenever analyze_movie_emotion returns a non-empty emotion_profile, its
\* values sum to 1.0 within 0.0005 per category present (at most 0.005).
C1_ProfileSumsToOne ==
    (stage # "input" /\ analysis.emotion_profile # <<>>) =>
        /\ 2 * Abs(DictSum(analysis.emotion_profile) - 1000) <= Len(analysis.emotion_profile)
        /\ Abs(DictSum(analysis.emotion_profile) - 1000) <= 5

\* C1 witness: a profile of 3 categories whose rounded values do not sum to 1.000
C1_Witness ==
    /\ stage # "input"
    /\ Len(analysis.emotion_profile) = 3
    /\ DictSum(analysis.emotion_profile) = 1001

\* C5: reloading the exported record reproduces every category's exported
\* value (0 for a category absent from the export).
C5_RoundTripKeepsProfile ==
    stage = "loaded" =>
        \A c \in Categories :
            DictGet(formatted_movies[1].emotion_profile, c, 0)
                = DictGet(analysis.emotion_profile, c, 0)

\* C7: when the primary pass matches exactly one category c, the profile is
\* {c: 1.0} and dominant_emotions is [c].
C7_SingleCategory ==
    LET primary == PrimaryScores(tagline \o overview \o keywords)
    IN  (stage # "input" /\ Len(primary) = 1) =>
            /\ analysis.emotion_profile = << [k |-> primary[1].k, v |-> 1000] >>
            /\ analysis.dominant_emotions = << primary[1].k >>

\* C7 witness: the overview says happy twice and nothing else matches
C7_Witness ==
    /\ stage # "input"
    /\ overview = <<"happy", "happy">>
    /\ tagline = <<>>
    /\ keywords = <<>>
    /\ analysis.dominant_emotions = <<"joy">>

\* C11: dominant_emotions has at most 3 entries, in non-increasing score
\* order, each among the 3 highest-scoring categories and with a normalized
\* score above 0.1; it is empty when every normalized score is at most 0.1.
C11_DominantEmotions ==
    stage # "input" =>
        LET profile  == analysis.emotion_profile
            dominant == analysis.dominant_emotions
            Score(c) == DictGet(profile, c, 0)
        IN  /\ Len(dominant) <= 3
            /\ \A i, j \in 1..Len(dominant) : i < j => Score(dominant[i]) >= Score(dominant[j])
            /\ \A i \in 1..Len(dominant) :
                   /\ DictHas(profile, dominant[i])
                   /\ Score(dominant[i]) > 100
                   /\ Cardinality({n \in 1..Len(profile) :
                                      profile[n].v > Score(dominant[i])}) < 3
            /\ (\A n \in 1..Len(profile) : profile[n].v <= 100) => dominant = <<>>

\* C11 witness: all ten categories tie at 0.1 and no category is dominant
C11_Witness ==
    /\ stage # "input"
    /\ Len(analysis.emotion_profile) = 10
    /\ \A n \in 1..10 : analysis.emotion_profile[n].v = 100
    /\ analysis.dominant_emotions = <<>>


\* total_score of analyze_movie_emotion
TotalScore ==
    IF fallback_scores.called THEN DictSum(fallback_scores.scores)
    ELSE DictSum(primary_scores)

\* C27: analyze_movie_emotion never returns an empty emotion_profile: for
\* every input, empty overview, tagline, keywords and genres included, the
\* fallback chain yields a positive total score, the profile has at least one
\* category, and the list of the three generic tags of generate_mood_tags
\* is not what the record gets.
C27_ProfileNeverEmpty ==
    stage # "input" =>
        /\ TotalScore > 0
        /\ analysis.emotion_profile # <<>>
        /\ analysis.emotional_complexity >= 1
        /\ Range(analysis.mood_tags) # Range(GenericTags)

\* C27 witness: nothing but empty input, and the default distribution hope
\* 0.5, inspiration 0.25, joy 0.25
C27_Witness ==
    /\ stage = "analyzed"
    /\ overview = <<>> /\ tagline = <<>> /\ keywords = <<>> /\ genres = <<>>
    /\ fallback_scores.called
    /\ analysis.emotion_profile
          = <<Entry("hope", 500), Entry("inspiration", 250), Entry("joy", 250)>>

\* the raw score of a category, counted by the length of each keyword
RawScore(emotion, blob) ==
    LET words == emotion_lexicon(emotion)
        Short(i) == WordLen(words[i]) <= 3
        Four(i) == WordLen(words[i]) = 4
        Long(i) == WordLen(words[i]) > 4
    IN  SumSeq([i \in 1..Len(words) |->
                   IF Short(i) THEN BoundaryCount(words[i], blob) ELSE 0])
        + SumSeq([i \in 1..Len(words) |->
                   IF Four(i) THEN Count(words[i], blob) ELSE 0])
        + 2 * SumSeq([i \in 1..Len(words) |->
                   IF Long(i) THEN Count(words[i], blob) ELSE 0])

\* C19: in the primary pass a category's raw score over the blob (tagline +
\* overview + keywords) is the sum over its keywords of the word-boundary
\* occurrences for keywords of length <= 3, the substring occurrences for
\* keywords of length 4 and twice the substring occurrences for longer
\* keywords; a category enters the profile only if this sum is > 0.
C19_PrimaryScoringRule ==
    stage # "input" =>
        LET blob == tagline \o overview \o keywords
        IN  \A emotion \in Categories :
                /\ DictHas(primary_scores, emotion) <=> RawScore(emotion, blob) > 0
                /\ DictHas(primary_scores, emotion)
                      => DictGet(primary_scores, emotion, 0) = RawScore(emotion, blob)
                /\ (fallback_scores.called = FALSE /\ RawScore(emotion, blob) = 0)
                      => ~DictHas(analysis.emotion_profile, emotion)

\* C19 witness: a blob with a short keyword inside a longer word, a keyword
\* of 4 characters and a longer one
C19_Witness ==
    /\ stage = "analyzed"
    /\ keywords = <<"sadness">>
    /\ overview = <<"rage", "sad", "peaceful">>
    /\ tagline = <<"happy">>
    /\ primary_scores = <<Entry("joy", 2), Entry("sadness", 3), Entry("anger", 1),
                          Entry("peace", 4)>>

\* C17: the JSON corpus is field-compatible between the builder and the
\* recommender: a record written by save_data and reloaded by
\* load_movies_from_json has the exported overview as its plot, the exported
\* release year as its year and the exported vote average as its rating, and
\* keeps id, title, genres, tagline, runtime, mood_tags and dominant_emotions.
C17_FieldCompatible ==
    stage = "loaded" =>
        \A i \in 1..Len(json_corpus) :
            LET exported == json_corpus[i]
                record == formatted_movies[i]
            IN  /\ record.year = exported.release_year
                /\ record.rating = exported.vote_average
                /\ record.plot = exported.overview
                /\ record.id = exported.id
                /\ record.title = exported.title
                /\ record.genres = exported.genres
                /\ record.tagline = exported.tagline
                /\ record.runtime = exported.runtime
                /\ record.mood_tags = exported.mood_tags
                /\ record.dominant_emotions = exported.dominant_emotions

\* the scores of the first fallback strategy, in the chain's order, that
\* produces a score
FirstStrategyScores(ov, tl, gs) ==
    LET lexicon == ExtendedScores(tl \o ov)
        genre   == GenreScores(<<>>, gs)
        known   == KnownMovieScores(<<>>, ov)
    IN  IF lexicon # <<>> THEN lexicon
        ELSE IF genre # <<>> THEN genre
        ELSE IF known # <<>> THEN known
        ELSE DefaultScores(ov, tl)

\* C10: the fallback chain stops at the first strategy that produces a score:
\* what fallback_emotion_analysis returns is that one strategy's scores.
C10_ChainStopsAtFirst ==
    fallback_scores.called =>
        fallback_scores.scores = FirstStrategyScores(overview, tagline, genres)

-----------------------------------------------------------------------------
(* generate_mood_tags on any profile *)

\* the categories a profile of this run may hold, in the order it holds them,
\* and the scores it may give them (thousandths)
TagCategories == <<"joy", "love", "sadness", "hope", "fear">>
TagScores == {40, 50, 120, 150, 200}

\* the profiles over TagCategories: each category absent or with a score
TagProfiles ==
    LET Present(f) == {i \in 1..Len(TagCategories) : f[i] # 0}
        RECURSIVE Build(_, _)
        Build(f, i) ==
            IF i > Len(TagCategories) THEN <<>>
            ELSE (IF f[i] # 0 THEN <<Entry(TagCategories[i], f[i])>> ELSE <<>>) \o Build(f, i + 1)
    IN  {Build(f, 1) : f \in [1..Len(TagCategories) -> TagScores \cup {0}]}

TagsInit ==
    /\ ScorerIdle
    /\ RecommenderInit
    /\ CrawlIdle
    /\ LoadIdle
    /\ LoopIdle
    /\ tag_profile \in TagProfiles
    /\ tag_result = <<>>
    /\ tag_stage = "input"

GenerateMoodTags ==
    /\ tag_stage = "input"
    /\ \E tags \in generate_mood_tags(tag_profile) : tag_result' = tags
    /\ tag_stage' = "done"
    /\ UNCHANGED tag_profile
    /\ UNCHANGED <<scorerVars, searchVars, crawlVars, loadVars, loopVars>>

TagsNext == GenerateMoodTags

SpecTags == TagsInit /\ [][TagsNext]_vars

\* C2: generate_mood_tags returns at most 6 entries, none of them twice.
C2_AtMostSixDistinctTags ==
    tag_stage = "done" =>
        /\ Len(tag_result) <= 6
        /\ \A i, j \in 1..Len(tag_result) : i # j => tag_result[i] # tag_result[j]

\* C2 witness: more than 6 tags were built and 6 were returned
C2_Witness ==
    /\ tag_stage = "done"
    /\ tag_profile # <<>>
    /\ Len(MoodTagList(tag_profile)) > 6
    /\ Len(tag_result) = 6

TagsDone == tag_stage = "done" /\ tag_profile # <<>>

Returns(tag) == tag \in Range(tag_result)

\* C12: for a non-empty profile the returned list holds the strong tag of
\* every category with score >= 0.15, the moderate tag of every category
\* with score in [0.05, 0.15), and neither tag of a category below 0.05.
C12_BaseTagsReturned ==
    TagsDone =>
        \A n \in 1..Len(tag_profile) :
            LET c == tag_profile[n].k
                v == tag_profile[n].v
            IN  /\ v >= 150 => Returns(<<"very", c>>)
                /\ (v >= 50 /\ v < 150) => Returns(<<"somewhat", c>>)
                /\ v < 50 => (~Returns(<<"very", c>>) /\ ~Returns(<<"somewhat", c>>))

\* C12 as amended: a strong tag in the returned list belongs to a category
\* with score >= 0.15 and a moderate tag to one with score in [0.05, 0.15);
\* when at most 6 distinct tags are built, the list holds the strong tag of
\* every category with score >= 0.15 and the moderate tag of every category
\* with score in [0.05, 0.15).
C12_BaseTagsWithinCap ==
    TagsDone =>
        /\ \A c \in Categories :
               LET v == DictGet(tag_profile, c, 0)
               IN  /\ Returns(<<"very", c>>) => v >= 150
                   /\ Returns(<<"somewhat", c>>) => (v >= 50 /\ v < 150)
        /\ Cardinality(Range(MoodTagList(tag_profile))) <= 6 =>
               \A n \in 1..Len(tag_profile) :
                   LET c == tag_profile[n].k
                       v == tag_profile[n].v
                   IN  /\ v >= 150 => Returns(<<"very", c>>)
                       /\ (v >= 50 /\ v < 150) => Returns(<<"somewhat", c>>)

\* C12 witness: one category at exactly 0.15, one moderate, one below 0.05
C12_Witness ==
    /\ TagsDone
    /\ tag_profile = << [k |-> "joy", v |-> 150], [k |-> "sadness", v |-> 50],
                        [k |-> "fear", v |-> 40] >>
    /\ Returns(<<"very", "joy">>)
    /\ Returns(<<"somewhat", "sadness">>)

-----------------------------------------------------------------------------
(* The recommender: index_movies and the three searches.                    *)
(* Profile values and emotion-vector cells are in thousandths; semantic and *)
(* emotion similarities are in thousandths; weights are in tenths, so a     *)
(* hybrid score is in ten-thousandths.  A target is a dict of intensities   *)
(* over a common denominator: [den |-> d, items |-> dict of numerators].    *)

MaxMovies == 2

Min(a, b) == IF a < b THEN a ELSE b

Max(a, b) == IF a > b THEN a ELSE b

RECURSIVE Dot(_, _)
Dot(a, b) == IF a = <<>> THEN 0 ELSE Head(a) * Head(b) + Dot(Tail(a), Tail(b))

\* the largest r in lo..hi with r * r <= x
RECURSIVE ISqrtIn(_, _, _)
ISqrtIn(lo, hi, x) ==
    IF lo >= hi THEN lo
    ELSE LET mid == (lo + hi + 1) \div 2
         IN  IF mid * mid <= x THEN ISqrtIn(mid, hi, x) ELSE ISqrtIn(lo, mid - 1, x)

ISqrt(x) == ISqrtIn(0, 1000, x)

\* cosine_similarity([t], [v]) in thousandths; sklearn divides by a norm of 1
\* when a vector is all zero, so the similarity is then 0
CosSim(t, v) ==
    LET dot == Dot(t, v)
        nt  == Dot(t, t)
        nv  == Dot(v, v)
    IN  IF nt = 0 \/ nv = 0 \/ dot = 0 THEN 0
        ELSE ISqrt(((((1000 * dot) \div nt) * dot) \div nv) * 1000)

\* the mapping without its alias entries
emotion_mapping_without_aliases(emotion) ==
    IF emotion \in Categories THEN emotion ELSE NoValue

\* self.emotion_mapping: the ten labels map to themselves, "kuaile" is the
\* first alias of joy; any other key is absent
emotion_mapping(emotion) ==
    IF emotion \in Categories THEN emotion
    ELSE IF emotion = "kuaile" THEN "joy"
    ELSE NoValue

\* max(0.0, min(1.0, value)) with 1.0 written as one
Clamp01(value, one) == Max(0, Min(one, value))

\* full_profile of extract_emotion_vectors for one movie
FullProfile(movie, labels) ==
    [j \in 1..Len(labels) |->
        [k |-> labels[j],
         v |-> Clamp01(DictGet(movie.emotion_profile, labels[j], 0), 1000)]]

\* extract_emotion_vectors: the matrix, one row per movie
EmotionVectors(ms, labels) ==
    [i \in 1..Len(ms) |-> [j \in 1..Len(labels) |-> FullProfile(ms[i], labels)[j].v]]

\* extract_emotion_vectors: self.emotion_profiles, keyed by movie id
RECURSIVE EmotionProfiles(_, _, _)
EmotionProfiles(profiles, ms, labels) ==
    IF ms = <<>> THEN profiles
    ELSE EmotionProfiles(DictPut(profiles, Head(ms).id, FullProfile(Head(ms), labels)),
                         Tail(ms), labels)

\* the movie dicts handed to index_movies: two share an id, one has an
\* empty profile, one has values outside [0, 1] and a label outside the ten
MovieChoices ==
    { [id |-> 1, emotion_profile |-> <<Entry("joy", 1000)>>],
      [id |-> 2, emotion_profile |-> <<Entry("sadness", 1000)>>],
      [id |-> 2, emotion_profile |-> <<Entry("joy", 100), Entry("anger", 900)>>],
      [id |-> 3, emotion_profile |-> <<>>],
      [id |-> 4, emotion_profile |-> <<Entry("joy", 1500), Entry("sadness", -200),
                                       Entry("wonder", 500)>>] }

MovieLists == UNION {[1..n -> MovieChoices] : n \in 1..MaxMovies}

Indexed == semantic_embeddings # NoValue

\* index_movies(movies)
IndexMovies ==
    /\ ~Indexed
    /\ \E ms \in MovieLists :
        /\ movies' = ms
        /\ semantic_embeddings' = "tensor"
        /\ emotion_labels' = fixed_emotion_labels
        /\ emotion_vectors' = EmotionVectors(ms, fixed_emotion_labels)
        /\ emotion_profiles' = EmotionProfiles(<<>>, ms, fixed_emotion_labels)
    /\ UNCHANGED <<call, results>>
    /\ UNCHANGED <<scorerVars, tagVars, crawlVars, loadVars, loopVars>>

-----------------------------------------------------------------------------
(* Search results.  A result entry is the copied record with its scores: *)
(* idx is the position in self.movies of the record that was copied.     *)

ResultEntry(ms, i, sem, emo, sc) ==
    [idx |-> i, movie |-> ms[i], semantic_score |-> sem, emotion_score |-> emo,
     score |-> sc]

\* semantic_search: if self.semantic_embeddings is None: raise ValueError
semantic_search_raises(embeddings) == embeddings = NoValue

emotion_search_never_raises(vectors) == FALSE

\* emotion_search: if self.emotion_vectors is None: raise ValueError
emotion_search_raises(vectors) == vectors = NoVectors

\* a record with the two score keys written into it
Scored(movie, sem, emo) ==
    [f \in DOMAIN movie \cup {"semantic_score", "emotion_score"} |->
        IF f = "semantic_score" THEN sem
        ELSE IF f = "emotion_score" THEN emo
        ELSE movie[f]]

\* self.movies after a search that writes the scores into the records
MoviesAfterSearchInPlace(ms, res) ==
    [i \in 1..Len(ms) |->
        IF \E n \in 1..Len(res) : res[n].idx = i
        THEN LET n == CHOOSE n \in 1..Len(res) : res[n].idx = i
             IN  Scored(ms[i], res[n].semantic_score, res[n].emotion_score)
        ELSE ms[i]]

\* self.movies after a search that returned res: each result is made of
\* self.movies[idx].copy(), and the score keys are written into the copy
MoviesAfterSearch(ms, res) == ms

Orders(n) == {p \in [1..n -> 1..n] : \A i, j \in 1..n : i # j => p[i] # p[j]}

\* similarities.argsort(): an ascending order of the indices; the order of
\* equal values is not fixed by the default sort kind
ArgSorts(sims) ==
    {p \in Orders(Len(sims)) :
        \A i, j \in 1..Len(sims) : i < j => sims[p[i]] <= sims[p[j]]}

\* similarities.topk(k).indices: the k largest in descending order; the order
\* of equal values is not fixed
TopKs(sims, k) ==
    {SubSeq(p, 1, k) : p \in
        {q \in Orders(Len(sims)) :
            \A i, j \in 1..Len(sims) : i < j => sims[q[i]] >= sims[q[j]]}}

Reverse(s) == [i \in 1..Len(s) |-> s[Len(s) + 1 - i]]

\* order[-top_k:]: the last top_k indices, and the whole order when top_k is 0
LastK(order, top_k) ==
    IF top_k = 0 THEN order
    ELSE SubSeq(order, Len(order) - top_k + 1, Len(order))

TopIndicesAscending(order, top_k) == LastK(order, top_k)

\* order[-top_k:][::-1]
TopIndices(order, top_k) == Reverse(LastK(order, top_k))

\* semantic_search(query, top_k): sims are the similarities the encoder gives
\* the query against each record
semantic_search(ms, sims, top_k) ==
    { [n \in 1..Len(top) |-> ResultEntry(ms, top[n], sims[top[n]], 0, sims[top[n]])] :
        top \in TopKs(sims, Min(top_k, Len(ms))) }

\* converted_emotions of emotion_search
RECURSIVE ConvertedEmotions(_, _, _, _)
ConvertedEmotions(converted, items, den, labels) ==
    IF items = <<>> THEN converted
    ELSE LET emotion == Head(items).k
             mapped  == IF emotion_mapping(emotion) = NoValue THEN emotion
                        ELSE emotion_mapping(emotion)
         IN  ConvertedEmotions(
                 IF mapped \in Range(labels)
                 THEN DictPut(converted, mapped, Clamp01(Head(items).v, den))
                 ELSE converted,
                 Tail(items), den, labels)

\* target_vector of emotion_search, before it is divided by its norm (the
\* division changes neither the all-zero test nor the cosine)
TargetVector(target, labels) ==
    LET converted == ConvertedEmotions(<<>>, target.items, target.den, labels)
    IN  [j \in 1..Len(labels) |-> DictGet(converted, labels[j], 0)]

AllZeroNever(v) == FALSE

\* np.all(target_vector == 0)
AllZero(v) == \A j \in 1..Len(v) : v[j] = 0

\* emotion_search(target_emotions, top_k): the lists it can return
emotion_search(ms, ev, labels, target, top_k) ==
    LET target_vector == TargetVector(target, labels)
        sims == [i \in 1..Len(ms) |-> CosSim(target_vector, ev[i])]
        k    == Min(top_k, Len(ms))
    IN  IF AllZero(target_vector) THEN {<<>>}
        ELSE { LET top == TopIndices(order, k)
               IN  [n \in 1..Len(top) |->
                        ResultEntry(ms, top[n], 0, sims[top[n]], sims[top[n]])] :
                 order \in ArgSorts(sims) }

-----------------------------------------------------------------------------
(* extract_emotions_from_query.  A query is a sequence of fragments:       *)
(* gudu, kaixin, aiqing, wuliao are the two-character words for lonely,    *)
(* happy, romance and bored; dianying (film) holds no keyword.             *)

QueryVocab == {"gudu", "kaixin", "aiqing", "wuliao", "dianying"}

\* word in fragment: "ai" (love) is the first character of "aiqing"
InFragment(word, frag) == word = frag \/ (word = "ai" /\ frag = "aiqing")

InQuery(word, query) == \E i \in 1..Len(query) : InFragment(word, query[i])

\* emotion_keywords, reduced to the keywords that occur in QueryVocab
emotion_keywords(emotion) ==
    CASE emotion = "joy"        -> <<"kaixin">>
      [] emotion = "love"       -> <<"ai", "aiqing">>
      [] emotion = "loneliness" -> <<"gudu">>
      [] OTHER                  -> <<>>

\* 1 when some keyword of the emotion is found in the query
EmotionCountPresence(emotion, query) ==
    IF \E n \in 1..Len(emotion_keywords(emotion)) :
           InQuery(emotion_keywords(emotion)[n], query)
    THEN 1 ELSE 0

\* emotion_counts[emotion]: the keywords of the emotion found in the query
EmotionCount(emotion, query) ==
    Cardinality({n \in 1..Len(emotion_keywords(emotion)) :
                    InQuery(emotion_keywords(emotion)[n], query)})

AnyInQuery(words, query) == \E w \in words : InQuery(w, query)

FixedTarget(e1, e2) == [den |-> 10, items |-> <<Entry(e1, 8), Entry(e2, 2)>>]

\* the extraction without the trigger rules and the default distribution
extract_emotions_from_keywords_only(query) ==
    LET counts == [j \in 1..Len(fixed_emotion_labels) |->
                      Entry(fixed_emotion_labels[j],
                            EmotionCount(fixed_emotion_labels[j], query))]
    IN  [den |-> Max(1, DictSum(counts)), items |-> SelectSeq(counts, LAMBDA e : e.v > 0)]

extract_emotions_from_query(query) ==
    LET counts == [j \in 1..Len(fixed_emotion_labels) |->
                      Entry(fixed_emotion_labels[j],
                            EmotionCount(fixed_emotion_labels[j], query))]
        total_hits == DictSum(counts)
    IN  IF total_hits > 0
        THEN [den |-> total_hits, items |-> SelectSeq(counts, LAMBDA e : e.v > 0)]
        ELSE IF AnyInQuery({"gudu", "wuliao"}, query) THEN FixedTarget("loneliness", "sadness")
        ELSE IF AnyInQuery({"kaixin"}, query) THEN FixedTarget("joy", "love")
        ELSE IF AnyInQuery({}, query) THEN FixedTarget("sadness", "loneliness")
        ELSE IF AnyInQuery({}, query) THEN FixedTarget("tension", "fear")
        ELSE IF AnyInQuery({"aiqing"}, query) THEN FixedTarget("love", "joy")
        ELSE [den |-> 10,
              items |-> <<Entry("joy", 3), Entry("hope", 3), Entry("inspiration", 4)>>]

-----------------------------------------------------------------------------
(* get_recommendation_by_mood *)

\* get_recommendation_by_mood with the semantic search in both branches
get_recommendation_by_mood_semantic(ms, ev, labels, sims, mood_description, top_k) ==
    semantic_search(ms, sims, top_k)

\* get_recommendation_by_mood(mood_description, top_k): a dict is true when
\* it has an item
get_recommendation_by_mood(ms, ev, labels, sims, mood_description, top_k) ==
    LET target_emotions == extract_emotions_from_query(mood_description)
    IN  IF target_emotions.items # <<>>
        THEN emotion_search(ms, ev, labels, target_emotions, top_k)
        ELSE semantic_search(ms, sims, top_k)

-----------------------------------------------------------------------------
(* hybrid_search *)

\* target_emotions=None
NoTarget == [den |-> 0, items |-> <<>>]

\* semantic_scores / emotion_scores: movie id -> score, a later result
\* entry with the same id replaces an earlier one
RECURSIVE ScoresById(_, _)
ScoresById(scores, res) ==
    IF res = <<>> THEN scores
    ELSE ScoresById(DictPut(scores, Head(res).movie.id, Head(res).score), Tail(res))

\* combined_scores: movie id -> weighted sum, in the order of self.movies
RECURSIVE CombinedScores(_, _, _, _, _, _)
CombinedScores(combined, ms, semantic_scores, emotion_scores, sw, ew) ==
    IF ms = <<>> THEN combined
    ELSE CombinedScores(
             DictPut(combined, Head(ms).id,
                     DictGet(semantic_scores, Head(ms).id, 0) * sw
                         + DictGet(emotion_scores, Head(ms).id, 0) * ew),
             Tail(ms), semantic_scores, emotion_scores, sw, ew)

\* next(m for m in self.movies if m['id'] == movie_id)
FirstWithId(ms, movie_id) ==
    CHOOSE i \in 1..Len(ms) :
        ms[i].id = movie_id /\ \A j \in 1..(i - 1) : ms[j].id # movie_id

\* hybrid_search(query, target_emotions, semantic_weight, emotion_weight,
\* top_k): the lists it can return
hybrid_search(ms, ev, labels, sims, query, target_emotions, sw, ew, top_k) ==
    LET target == IF target_emotions = NoTarget
                  THEN extract_emotions_from_query(query)
                  ELSE target_emotions
    IN  { LET semantic_scores == ScoresById(<<>>, semantic_results)
              emotion_scores  == ScoresById(<<>>, emotion_results)
              combined == CombinedScores(<<>>, ms, semantic_scores, emotion_scores,
                                         sw, ew)
              sorted   == SortByValueDesc(combined)
              top      == SubSeq(sorted, 1, Min(top_k, Len(sorted)))
          IN  [n \in 1..Len(top) |->
                  ResultEntry(ms, FirstWithId(ms, top[n].k),
                              DictGet(semantic_scores, top[n].k, 0),
                              DictGet(emotion_scores, top[n].k, 0),
                              top[n].v)] :
            semantic_results \in semantic_search(ms, sims, Len(ms)),
            emotion_results \in emotion_search(ms, ev, labels, target, Len(ms)) }

-----------------------------------------------------------------------------
(* The recommender's calls *)

TopKChoices == 0..(MaxMovies + 1)

\* similarities of the query to a record, as the encoder may give them
SemChoices == {200, 800}

TargetChoices ==
    { [den |-> 10, items |-> <<>>],
      [den |-> 10, items |-> <<Entry("joy", 8), Entry("sadness", 2)>>],
      [den |-> 10, items |-> <<Entry("wonder", 5)>>],
      [den |-> 10, items |-> <<Entry("joy", 0), Entry("sadness", -5)>>],
      [den |-> 10, items |-> <<Entry("kuaile", 15), Entry("wonder", 5)>>],
      [den |-> 10, items |-> <<Entry("anger", 5), Entry("joy", 5)>>],
      [den |-> 10, items |-> <<Entry("wonder", 5), Entry("joy", 8),
                               Entry("sadness", 2)>>] }

QueryChoices == {<<"dianying">>, <<"wuliao">>, <<"gudu", "dianying">>,
                 <<"kaixin", "aiqing">>}

\* the mood descriptions: the queries and the empty text
MoodChoices == QueryChoices \cup {<<>>}

HybridTargets ==
    { NoTarget,
      [den |-> 10, items |-> <<>>],
      [den |-> 10, items |-> <<Entry("joy", 8), Entry("sadness", 2)>>] }

WeightChoices == {<<7, 3>>, <<5, 5>>}

\* A search leaves the index as it is, so one search per run reaches every
\* result a longer run can produce.
FirstCall == call.op = "none"

\* semantic_search(query, top_k); ValueError before index_movies
SemanticSearch ==
    /\ FirstCall
    /\ IF semantic_search_raises(semantic_embeddings)
       THEN call' = [op |-> "semantic_search", raised |-> TRUE] /\ results' = <<>>
       ELSE \E top_k \in TopKChoices, sims \in [1..Len(movies) -> SemChoices] :
                /\ call' = [op |-> "semantic_search", raised |-> FALSE,
                            sims |-> sims, top_k |-> top_k]
                /\ results' \in semantic_search(movies, sims, top_k)
    /\ movies' = MoviesAfterSearch(movies, results')
    /\ UNCHANGED <<semantic_embeddings, emotion_vectors, emotion_labels,
                   emotion_profiles>>
    /\ UNCHANGED <<scorerVars, tagVars, crawlVars, loadVars, loopVars>>

\* emotion_search(target_emotions, top_k); ValueError before index_movies
EmotionSearch ==
    /\ FirstCall
    /\ IF emotion_search_raises(emotion_vectors)
       THEN call' = [op |-> "emotion_search", raised |-> TRUE] /\ results' = <<>>
       ELSE \E top_k \in TopKChoices, target \in TargetChoices :
                /\ call' = [op |-> "emotion_search", raised |-> FALSE,
                            target |-> target, top_k |-> top_k]
                /\ results' \in emotion_search(movies, emotion_vectors,
                                                emotion_labels, target, top_k)
    /\ movies' = MoviesAfterSearch(movies, results')
    /\ UNCHANGED <<semantic_embeddings, emotion_vectors, emotion_labels,
                   emotion_profiles>>
    /\ UNCHANGED <<scorerVars, tagVars, crawlVars, loadVars, loopVars>>

\* hybrid_search(query, target_emotions, semantic_weight, emotion_weight,
\* top_k); its semantic_search raises ValueError before index_movies
HybridSearch ==
    /\ FirstCall
    /\ IF semantic_search_raises(semantic_embeddings)
       THEN call' = [op |-> "hybrid_search", raised |-> TRUE] /\ results' = <<>>
       ELSE \E top_k \in TopKChoices, sims \in [1..Len(movies) -> SemChoices],
               query \in QueryChoices, target \in HybridTargets,
               w \in WeightChoices :
                /\ target = NoTarget \/ query = <<"dianying">>
                /\ call' = [op |-> "hybrid_search", raised |-> FALSE, sims |-> sims,
                            query |-> query, target |-> target,
                            semantic_weight |-> w[1], emotion_weight |-> w[2],
                            top_k |-> top_k]
                /\ results' \in hybrid_search(movies, emotion_vectors,
                                               emotion_labels, sims, query, target,
                                               w[1], w[2], top_k)
    /\ movies' = MoviesAfterSearch(movies, results')
    /\ UNCHANGED <<semantic_embeddings, emotion_vectors, emotion_labels,
                   emotion_profiles>>
    /\ UNCHANGED <<scorerVars, tagVars, crawlVars, loadVars, loopVars>>

\* get_recommendation_by_mood(mood_description, top_k); its search raises
\* ValueError before index_movies
GetRecommendationByMood ==
    /\ FirstCall
    /\ \E top_k \in TopKChoices, sims \in [1..Len(movies) -> SemChoices],
          mood \in MoodChoices :
          IF (IF extract_emotions_from_query(mood).items # <<>>
              THEN emotion_search_raises(emotion_vectors)
              ELSE semantic_search_raises(semantic_embeddings))
          THEN call' = [op |-> "get_recommendation_by_mood", raised |-> TRUE]
               /\ results' = <<>>
          ELSE  /\ call' = [op |-> "get_recommendation_by_mood", raised |-> FALSE,
                            sims |-> sims, mood |-> mood, top_k |-> top_k,
                            target |-> extract_emotions_from_query(mood)]
                /\ results' \in get_recommendation_by_mood(movies, emotion_vectors,
                                   emotion_labels, sims, mood, top_k)
    /\ movies' = MoviesAfterSearch(movies, results')
    /\ UNCHANGED <<semantic_embeddings, emotion_vectors, emotion_labels,
                   emotion_profiles>>
    /\ UNCHANGED <<scorerVars, tagVars, crawlVars, loadVars, loopVars>>

SearchInit ==
    /\ ScorerIdle
    /\ TagsIdle
    /\ CrawlIdle
    /\ LoadIdle
    /\ LoopIdle
    /\ RecommenderInit

SearchNext ==
    \/ IndexMovies
    \/ SemanticSearch
    \/ EmotionSearch
    \/ HybridSearch
    \/ GetRecommendationByMood

SpecSearch == SearchInit /\ [][SearchNext]_vars

-----------------------------------------------------------------------------
(* Properties of the searches *)

Returned == ~FirstCall /\ ~call.raised

\* the target hybrid_search hands to emotion_search
HybridTarget ==
    IF call.target = NoTarget THEN extract_emotions_from_query(call.query)
    ELSE call.target

\* the cosine of record i's own emotion vector to the target, 0 when the
\* mapped target is all zero
OwnEmotionSimilarity(target, i) ==
    LET tv == TargetVector(target, emotion_labels)
    IN  IF \A j \in 1..Len(tv) : tv[j] = 0 THEN 0
        ELSE CosSim(tv, emotion_vectors[i])

\* C3: the score hybrid_search reports for a returned record is
\* semantic_weight x the record's own semantic similarity plus
\* emotion_weight x the record's own emotion cosine similarity.
C3_HybridScoreIsOwnWeightedSum ==
    (Returned /\ call.op = "hybrid_search") =>
        \A n \in 1..Len(results) :
            results[n].score =
                call.semantic_weight * call.sims[results[n].idx]
                    + call.emotion_weight
                        * OwnEmotionSimilarity(HybridTarget, results[n].idx)

\* C4: after indexing, emotion_search returns the empty list whenever the
\* target mapped into the ten fixed categories is all zero, for every top_k
\* and every record set.
C4_ZeroTargetReturnsNothing ==
    (Returned /\ call.op = "emotion_search") =>
        ((\A j \in 1..Len(emotion_labels) :
              TargetVector(call.target, emotion_labels)[j] = 0)
            => results = <<>>)

\* C4 witness: two records indexed, a target that clamps to zero, top_k 2
C4_Witness ==
    /\ Returned
    /\ call.op = "emotion_search"
    /\ call.target = [den |-> 10, items |-> <<Entry("joy", 0), Entry("sadness", -5)>>]
    /\ call.top_k = 2
    /\ Len(movies) = 2
    /\ results = <<>>

JoySadnessTarget == [den |-> 10, items |-> <<Entry("joy", 8), Entry("sadness", 2)>>]

StoredValue(i, emotion) == DictGet(movies[i].emotion_profile, emotion, 0)

JoySadnessCall ==
    /\ Returned
    /\ call.op = "emotion_search"
    /\ call.target = JoySadnessTarget
    /\ call.top_k >= 1

\* C6: in a catalog where exactly one record has a non-zero joy value,
\* emotion_search with target {joy: 0.8, sadness: 0.2} and top_k >= 1 returns
\* that record in first position.
C6_OnlyJoyRecordFirst ==
    JoySadnessCall =>
        \A i \in 1..Len(movies) :
            (\A m \in 1..Len(movies) : (StoredValue(m, "joy") # 0) <=> (m = i))
                => (results # <<>> /\ results[1].idx = i)

\* C6 as amended: in a catalog where exactly one record has a positive joy
\* value and no other record has a positive sadness value, emotion_search
\* with target {joy: 0.8, sadness: 0.2} and top_k >= 1 returns that record in
\* first position.
C6_OnlyJoyNoSadnessFirst ==
    JoySadnessCall =>
        \A i \in 1..Len(movies) :
            (\A m \in 1..Len(movies) :
                  /\ (StoredValue(m, "joy") > 0) <=> (m = i)
                  /\ (m # i) => StoredValue(m, "sadness") <= 0)
                => (results # <<>> /\ results[1].idx = i)

\* C6 witness: the only joy record is second in the input and first returned
C6_Witness ==
    /\ JoySadnessCall
    /\ call.top_k = 1
    /\ Len(movies) = 2
    /\ movies[1].emotion_profile = <<>>
    /\ StoredValue(2, "joy") > 0
    /\ Len(results) = 1
    /\ results[1].idx = 2

\* C8: for N indexed records and every top_k >= 0, semantic_search,
\* emotion_search (with a non-zero mapped target) and hybrid_search return
\* exactly min(top_k, N) pairs, each for a different indexed record, in
\* non-increasing score order.
C8_ExactlyMinTopKPairs ==
    (/\ Returned
     /\ call.op = "emotion_search" =>
            \E j \in 1..Len(emotion_labels) :
                TargetVector(call.target, emotion_labels)[j] # 0)
    => /\ Len(results) = Min(call.top_k, Len(movies))
       /\ \A m, n \in 1..Len(results) :
              m < n => /\ results[m].idx # results[n].idx
                       /\ results[m].score >= results[n].score

\* C9: in emotion_search and hybrid_search, of two returned records with
\* equal scores the one earlier in the indexed input order comes first.
C9_TiesInInputOrder ==
    (Returned /\ call.op \in {"emotion_search", "hybrid_search"}) =>
        \A m, n \in 1..Len(results) :
            (m < n /\ results[m].score = results[n].score)
                => results[m].idx < results[n].idx

\* the label an alias stands for
CanonicalLabel(label) == IF label = "kuaile" THEN "joy" ELSE label

\* the target without its unknown labels and with its aliases replaced
KnownCanonical(target) ==
    LET Known(e) == CanonicalLabel(e.k) \in Categories
        known == SelectSeq(target.items, Known)
    IN  [den |-> target.den,
         items |-> [n \in 1..Len(known) |->
                       Entry(CanonicalLabel(known[n].k), known[n].v)]]

\* C13: emotion_search drops a label that maps to none of the ten categories
\* and treats an alias as its canonical label: the result is a result of
\* the same search without the unknown labels and with the canonical labels.
C13_UnknownDroppedAliasMapped ==
    (Returned /\ call.op = "emotion_search") =>
        results \in emotion_search(movies, emotion_vectors, fixed_emotion_labels,
                                   KnownCanonical(call.target), call.top_k)

\* C13 witness: an alias of joy and an unknown label find the joy record
C13_Witness ==
    /\ Returned
    /\ call.op = "emotion_search"
    /\ call.target = [den |-> 10, items |-> <<Entry("kuaile", 15), Entry("wonder", 5)>>]
    /\ results # <<>>
    /\ results[1].emotion_score = 1000
    /\ results[1].movie.id = 1

\* C18: get_recommendation_by_mood returns the result of emotion_search on
\* the emotions extracted from the mood text when the extraction yields at
\* least one emotion, and the result of semantic_search on the text when the
\* extraction yields nothing.
C18_MoodDelegates ==
    (Returned /\ call.op = "get_recommendation_by_mood") =>
        LET extracted == extract_emotions_from_query(call.mood)
        IN  /\ extracted.items # <<>> =>
                  results \in emotion_search(movies, emotion_vectors, emotion_labels,
                                             extracted, call.top_k)
            /\ extracted.items = <<>> =>
                  results \in semantic_search(movies, call.sims, call.top_k)

\* C18 witness: a mood text with the word for bored finds the sadness
\* record of two, which the semantic similarities rank last
C18_Witness ==
    /\ Returned
    /\ call.op = "get_recommendation_by_mood"
    /\ call.mood = <<"wuliao">>
    /\ call.top_k = 1
    /\ Len(movies) = 2
    /\ movies[1].id = 1
    /\ movies[2].emotion_profile = <<Entry("sadness", 1000)>>
    /\ call.sims = <<800, 200>>
    /\ Len(results) = 1
    /\ results[1].idx = 2

\* sorted() of the emotion names of the model
AlphabeticalOrder == <<"anger", "fear", "hope", "inspiration", "joy", "kuaile",
                       "loneliness", "love", "peace", "sadness", "tension", "wonder">>

Sorted(names) == SelectSeq(AlphabeticalOrder, LAMBDA e : e \in names)

\* save_emotion_vectors: the emotion columns of the exported vector file,
\* sorted(list(all_emotions)) of the keys of all the profiles
EmotionVectorHeaders(movie_data) ==
    Sorted(UNION {Range(DictKeys(movie_data[i].emotion_profile)) :
                     i \in 1..Len(movie_data)})

Position(seq, x) == CHOOSE n \in 1..Len(seq) : seq[n] = x

\* C25: after index_movies on N records the emotion-vector matrix has N rows
\* and exactly 10 columns, the columns are the 10 fixed categories in
\* canonical sorted order (the column order of the exporter's emotion-vector
\* file), and cell (i, c) is record i's profile value for category c, or 0
\* when the profile lacks c.
C25_MatrixShapeAndOrder ==
    Indexed =>
        /\ Len(emotion_vectors) = Len(movies)
        /\ \A i \in 1..Len(movies) : Len(emotion_vectors[i]) = 10
        /\ Range(emotion_labels) = Categories
        /\ emotion_labels = Sorted(Categories)
        /\ LET headers == SelectSeq(EmotionVectorHeaders(movies),
                                    LAMBDA e : e \in Categories)
           IN  \A a, b \in 1..Len(headers) :
                   a < b => Position(emotion_labels, headers[a])
                                < Position(emotion_labels, headers[b])
        /\ \A i \in 1..Len(movies), j \in 1..10 :
               emotion_vectors[i][j]
                   = DictGet(movies[i].emotion_profile, emotion_labels[j], 0)

\* the recommender as __init__ leaves it
NeverIndexed ==
    /\ movies = <<>>
    /\ semantic_embeddings = NoValue
    /\ emotion_vectors = NoVectors
    /\ emotion_labels = <<>>
    /\ emotion_profiles = <<>>

\* C26: on a recommender on which index_movies was never called,
\* semantic_search, emotion_search and hybrid_search raise an error instead
\* of returning a result and leave the recommender's state unchanged; after
\* index_movies none of them raises this error.
C26_SearchNeedsIndex ==
    [][(call' # call
          /\ call'.op \in {"semantic_search", "emotion_search", "hybrid_search"}) =>
          /\ call'.raised <=> NeverIndexed
          /\ call'.raised => (results' = <<>> /\ UNCHANGED indexVars)]_vars

\* C26 witness: hybrid_search was called before index_movies and raised
C26_Witness ==
    /\ call.op = "hybrid_search"
    /\ call.raised
    /\ NeverIndexed
    /\ results = <<>>

\* C24: no query operation changes the index: a call of semantic_search,
\* emotion_search, hybrid_search or get_recommendation_by_mood leaves the
\* indexed records with all their fields, the emotion-vector matrix and the
\* emotion label list as they were; the scores are written to the copies
\* that are returned.
C24_QueriesLeaveIndex ==
    [][call' # call =>
          /\ movies' = movies
          /\ emotion_vectors' = emotion_vectors
          /\ emotion_labels' = emotion_labels]_vars

\* C24 witness: a hybrid search returned two scored copies, and the two
\* indexed records have no score key
C24_Witness ==
    /\ Returned
    /\ call.op = "hybrid_search"
    /\ Len(results) = 2
    /\ results[1].semantic_score > 0
    /\ results[1].emotion_score > 0
    /\ Len(movies) = 2
    /\ \A i \in 1..2 : DOMAIN movies[i] = {"id", "emotion_profile"}

MoodCall == Returned /\ call.op = "get_recommendation_by_mood"

\* the keywords of a category that occur in the mood text
KeywordHits(emotion, mood) ==
    {w \in Range(emotion_keywords(emotion)) : InQuery(w, mood)}

TotalHits(mood) ==
    SumSeq([j \in 1..Len(fixed_emotion_labels) |->
               Cardinality(KeywordHits(fixed_emotion_labels[j], mood))])

\* the weight of a category in an extracted distribution, as a fraction
\* num / den, is the weight a / b
WeightIs(target, emotion, a, b) ==
    /\ DictHas(target.items, emotion)
    /\ DictGet(target.items, emotion, 0) * b = a * target.den

\* the distribution has exactly these two or three weights, in tenths
IsDistribution(target, weights) ==
    /\ Len(target.items) = Len(weights)
    /\ \A n \in 1..Len(weights) : WeightIs(target, weights[n].k, weights[n].v, 10)

\* C21: extract_emotions_from_query: when a keyword of the table occurs in
\* the text, a category's weight is the number of its keywords that occur
\* over the total of all categories and a category without a hit is absent;
\* when none occurs, the first of the five trigger rules (loneliness, joy,
\* sadness, tension, love) whose trigger words occur decides; otherwise the
\* default joy 0.3, hope 0.3, inspiration 0.4 is returned.
C21_ExtractedDistribution ==
    MoodCall =>
        LET mood == call.mood
            target == call.target
            Trigger(words) == \E w \in words : InQuery(w, mood)
        IN  IF TotalHits(mood) > 0
            THEN \A emotion \in Categories :
                    LET hits == Cardinality(KeywordHits(emotion, mood))
                    IN  IF hits = 0 THEN ~DictHas(target.items, emotion)
                        ELSE WeightIs(target, emotion, hits, TotalHits(mood))
            ELSE IF Trigger({"gudu", "wuliao"})
            THEN IsDistribution(target, <<Entry("loneliness", 8), Entry("sadness", 2)>>)
            ELSE IF Trigger({"kaixin"})
            THEN IsDistribution(target, <<Entry("joy", 8), Entry("love", 2)>>)
            ELSE IF Trigger({"aiqing"})
            THEN IsDistribution(target, <<Entry("love", 8), Entry("joy", 2)>>)
            ELSE IsDistribution(target, <<Entry("joy", 3), Entry("hope", 3),
                                          Entry("inspiration", 4)>>)

\* C21 witness: a text with one keyword of joy and two of love gives joy
\* 1/3 and love 2/3
C21_Witness ==
    /\ MoodCall
    /\ call.mood = <<"kaixin", "aiqing">>
    /\ Len(call.target.items) = 2
    /\ WeightIs(call.target, "joy", 1, 3)
    /\ WeightIs(call.target, "love", 2, 3)

\* C28: for every query text extract_emotions_from_query returns a non-empty
\* mapping whose keys are among the ten fixed categories and whose weights
\* are positive and sum to 1; so get_recommendation_by_mood never takes its
\* semantic-search branch, and a mood query on a non-empty index never
\* returns an empty result.
C28_ExtractionNeverEmpty ==
    MoodCall =>
        /\ call.target.items # <<>>
        /\ \A n \in 1..Len(call.target.items) :
               /\ call.target.items[n].k \in Categories
               /\ call.target.items[n].v > 0
        /\ DictSum(call.target.items) = call.target.den
        /\ \A n \in 1..Len(results) :
               /\ results[n].semantic_score = 0
               /\ results[n].score = results[n].emotion_score
        /\ movies # <<>> => results # <<>>

\* C28 witness: a mood text without any keyword or trigger word gets the
\* default distribution and an emotion-search result
C28_Witness ==
    /\ MoodCall
    /\ call.mood = <<"dianying">>
    /\ call.target.den = 10
    /\ call.target.items
          = <<Entry("joy", 3), Entry("hope", 3), Entry("inspiration", 4)>>
    /\ call.top_k = 2
    /\ Len(movies) = 2
    /\ Len(results) = 2
    /\ results[1].semantic_score = 0

-----------------------------------------------------------------------------
(* The crawl: TMDBTopRatedCrawler.crawl_top_rated_movies.  The service   *)
(* gives text for three movies; a ranked-list page holds up to PageSize  *)
(* entries, and the service may answer a page with any of PageAnswers or *)
(* fail.                                                                 *)

PageSize == 20

\* pages_needed of crawl_top_rated_movies
PagesNeeded(n) ==
    IF n % PageSize = 0 THEN n \div PageSize ELSE (n \div PageSize) + 1

NumMoviesChoices == {0, 1, 2, 21, 40, 41}

\* only the detail and reviews requests of the first movies of the list may
\* fail
MaxFaultyMovies == 2

\* the overview the service gives for a movie id
OverviewOf(movie_id) ==
    CASE movie_id = 1 -> <<"happy">>
      [] movie_id = 2 -> <<"jiaofu">>
      [] OTHER -> <<>>

\* the details the service gives for a movie id
DetailsOf(movie_id) ==
    CASE movie_id = 1 -> Details(<<>>, <<"sad">>, <<"Comedy", "Drama">>)
      [] movie_id = 2 -> Details(<<"happy">>, <<>>, <<"Drama">>)
      [] OTHER -> Details(<<>>, <<>>, <<>>)

\* the reviews the service gives for a movie id
ReviewsOf(movie_id) == IF movie_id = 1 THEN <<"review">> ELSE <<>>

\* a page that lists one entry more than a page of the service holds
OverfullPage == [n \in 1..(PageSize + 1) |-> n]

\* the ids a successful page request may list
PageAnswers == {<<>>, <<1>>, <<1, 2>>, <<2, 3>>, <<3, 1>>, <<22, 1>>, OverfullPage}

PageOutcomes ==
    {[ok |-> FALSE, ids |-> <<>>]} \cup {[ok |-> TRUE, ids |-> a] : a \in PageAnswers}

\* get_top_rated_movies(page): the movie_info list, [] when the request fails
get_top_rated_movies(pg, outcome) ==
    IF ~outcome.ok THEN <<>>
    ELSE [n \in 1..Len(outcome.ids) |->
             MovieInfo(outcome.ids[n], OverviewOf(outcome.ids[n]),
                       (pg - 1) * PageSize + n)]

\* the details whether or not the request fails
get_movie_details_ignoring_failure(movie_id, ok) == DetailsOf(movie_id)

\* get_movie_details(movie_id): {} when the request fails
get_movie_details(movie_id, ok) == IF ok THEN DetailsOf(movie_id) ELSE NoDetails

\* get_movie_reviews(movie_id): [] when the request fails
get_movie_reviews(movie_id, ok) == IF ok THEN ReviewsOf(movie_id) ELSE <<>>

\* movie_list after all the movies of a page
AddAllMovies(list, ms) == list \o ms

\* movie_list after the movies of a page whose id is not collected yet
RECURSIVE AddNewMovies(_, _)
AddNewMovies(list, ms) ==
    IF ms = <<>> THEN list
    ELSE AddNewMovies(
             IF \E n \in 1..Len(list) : list[n].id = Head(ms).id THEN list
             ELSE Append(list, Head(ms)),
             Tail(ms))

\* movie_list without the cut
WholeList(list, n) == list

\* movie_list[:num_movies]
FirstN(list, n) == SubSeq(list, 1, Min(n, Len(list)))

CrawlInit ==
    /\ ScorerIdle
    /\ TagsIdle
    /\ RecommenderInit
    /\ LoadIdle
    /\ LoopIdle
    /\ num_movies \in NumMoviesChoices
    /\ page = 1
    /\ movie_list = <<>>
    /\ collected_ids = {}
    /\ all_movies = <<>>
    /\ next_movie = 1
    /\ page_log = <<>>
    /\ detail_log = <<>>
    /\ review_log = <<>>
    /\ crawl_pc = "pages"

\* one pass of the page loop: request the page, stop on an empty list, add
\* the new movies, stop when enough are collected or the pages are used up
FetchPage ==
    /\ crawl_pc = "pages"
    /\ page <= PagesNeeded(num_movies)
    /\ \E outcome \in PageOutcomes :
        LET ms    == get_top_rated_movies(page, outcome)
            added == AddNewMovies(movie_list, ms)
            stop  == \/ ms = <<>>
                     \/ Len(added) >= num_movies
                     \/ page = PagesNeeded(num_movies)
        IN  /\ page_log' = Append(page_log, [page |-> page, ok |-> outcome.ok,
                                             ids |-> outcome.ids])
            /\ movie_list' = IF stop THEN FirstN(added, num_movies) ELSE added
            /\ collected_ids' = {added[n].id : n \in 1..Len(added)}
            /\ page' = IF stop THEN page ELSE page + 1
            /\ crawl_pc' = IF stop THEN "movies" ELSE "pages"
    /\ UNCHANGED <<num_movies, all_movies, next_movie, detail_log, review_log>>
    /\ UNCHANGED <<scorerVars, tagVars, searchVars, loadVars, loopVars>>

\* range(1, pages_needed + 1) is empty: the page loop makes no pass
NoPage ==
    /\ crawl_pc = "pages"
    /\ page > PagesNeeded(num_movies)
    /\ movie_list' = FirstN(movie_list, num_movies)
    /\ crawl_pc' = "movies"
    /\ UNCHANGED <<num_movies, page, collected_ids, all_movies, next_movie, page_log,
                   detail_log, review_log>>
    /\ UNCHANGED <<scorerVars, tagVars, searchVars, loadVars, loopVars>>

\* one pass of the movie loop: details, reviews, analysis, merged record
ProcessMovie ==
    /\ crawl_pc = "movies"
    /\ next_movie <= Len(movie_list)
    /\ \E detail_ok \in BOOLEAN, reviews_ok \in BOOLEAN :
        LET movie   == movie_list[next_movie]
            details == get_movie_details(movie.id, detail_ok)
            reviews == get_movie_reviews(movie.id, reviews_ok)
        IN  /\ next_movie > MaxFaultyMovies => (detail_ok /\ reviews_ok)
            /\ detail_log' = Append(detail_log, [id |-> movie.id, ok |-> detail_ok])
            /\ review_log' = Append(review_log, [id |-> movie.id, ok |-> reviews_ok])
            /\ \E emotion_analysis \in
                   analyze_movie_emotion(Get(movie, "overview", <<>>),
                                         Get(details, "tagline", <<>>),
                                         Get(details, "keywords", <<>>),
                                         Get(details, "genres", <<>>)) :
                   all_movies' = Append(all_movies,
                                        MovieData(next_movie, movie, details, reviews,
                                                  emotion_analysis))
    /\ next_movie' = next_movie + 1
    /\ UNCHANGED <<num_movies, page, movie_list, collected_ids, page_log, crawl_pc>>
    /\ UNCHANGED <<scorerVars, tagVars, searchVars, loadVars, loopVars>>

\* return all_movies
ReturnAllMovies ==
    /\ crawl_pc = "movies"
    /\ next_movie > Len(movie_list)
    /\ crawl_pc' = "done"
    /\ UNCHANGED <<num_movies, page, movie_list, collected_ids, all_movies, next_movie,
                   page_log, detail_log, review_log>>
    /\ UNCHANGED <<scorerVars, tagVars, searchVars, loadVars, loopVars>>

CrawlNext ==
    \/ FetchPage
    \/ NoPage
    \/ ProcessMovie
    \/ ReturnAllMovies

SpecCrawl == CrawlInit /\ [][CrawlNext]_vars

-----------------------------------------------------------------------------
(* Properties of the crawl *)

PageLoopOver == crawl_pc \in {"movies", "done"}

Requested(pg) == \E n \in 1..Len(page_log) : page_log[n].page = pg

\* C14: when the request for a ranked-list page fails, the crawl goes on to
\* request the remaining needed pages.
C14_CrawlContinuesAfterFailedPage ==
    PageLoopOver =>
        \A n \in 1..Len(page_log) :
            (~page_log[n].ok /\ page_log[n].page < PagesNeeded(num_movies))
                => Requested(page_log[n].page + 1)

\* C15: a failed detail or reviews call does not abort the crawl: the movie
\* gets a merged record with default detail fields or an empty review list
\* and the analysis of the text there is, and the crawl returns one record
\* per selected movie.
C15_OneRecordPerSelectedMovie ==
    /\ Len(all_movies) = next_movie - 1
    /\ crawl_pc = "done" => Len(all_movies) = Len(movie_list)
    /\ \A i \in 1..Len(all_movies) :
          LET rec == all_movies[i]
          IN  /\ rec.id = movie_list[i].id
              /\ rec.overview = movie_list[i].overview
              /\ ~detail_log[i].ok =>
                    /\ rec.genres = <<>> /\ rec.tagline = <<>> /\ rec.keywords = <<>>
                    /\ rec.runtime = 0 /\ rec.director = "" /\ rec.cast = <<>>
                    /\ rec.emotion_profile
                           = NormalizedScores(EmotionScores(rec.overview, <<>>, <<>>, <<>>))
              /\ ~review_log[i].ok => (rec.reviews = <<>> /\ rec.review_count = 0)

\* C15 witness: three movies, the details of the second and the reviews of
\* the first failed, three records returned
C15_Witness ==
    /\ crawl_pc = "done"
    /\ Len(movie_list) = 3
    /\ Len(all_movies) = 3
    /\ ~detail_log[2].ok
    /\ detail_log[3].ok
    /\ ~review_log[1].ok

TimesIn(log, movie_id) == Cardinality({n \in 1..Len(log) : log[n].id = movie_id})

\* C20: no call is retried: a page number is requested at most once, and the
\* detail and the reviews endpoint are requested exactly once for each
\* selected movie that was processed, and not at all before.
C20_NoRetry ==
    /\ \A m, n \in 1..Len(page_log) : m # n => page_log[m].page # page_log[n].page
    /\ PageLoopOver =>
          \A i \in 1..Len(movie_list) :
              LET times == IF i < next_movie THEN 1 ELSE 0
              IN  /\ TimesIn(detail_log, movie_list[i].id) = times
                  /\ TimesIn(review_log, movie_list[i].id) = times
    /\ Len(detail_log) = next_movie - 1
    /\ Len(review_log) = next_movie - 1

\* C20 witness: two pages were requested, one request failed, and both
\* calls of some movie failed
C20_Witness ==
    /\ crawl_pc = "done"
    /\ Len(page_log) = 2
    /\ ~page_log[2].ok
    /\ Len(movie_list) = 2
    /\ ~detail_log[1].ok
    /\ ~review_log[1].ok

\* the ids the pages delivered, in the order they were delivered
RECURSIVE Delivered(_)
Delivered(log) ==
    IF log = <<>> THEN <<>>
    ELSE Delivered(SubSeq(log, 1, Len(log) - 1)) \o log[Len(log)].ids

IdsOf(list) == [n \in 1..Len(list) |-> list[n].id]

\* the first occurrences of a sequence of ids, in their order
FirstDelivered(ids) ==
    LET firsts == {n \in 1..Len(ids) : \A m \in 1..(n - 1) : ids[m] # ids[n]}
    IN  [k \in 1..Cardinality(firsts) |->
            ids[CHOOSE n \in firsts : Cardinality({m \in firsts : m < n}) = k - 1]]

\* C29: for every num_movies >= 0 and every sequence of page responses,
\* pages that repeat a movie id included, the crawl requests at most
\* ceil(num_movies / 20) pages, requests no page once num_movies distinct
\* movies are collected, and returns at most num_movies records, no two
\* with the same id, in the order the ranked list first delivered them.
C29_BoundedDistinctInOrder ==
    /\ Len(page_log) * PageSize < num_movies + PageSize
    /\ \A k \in 1..(Len(page_log) - 1) :
           Cardinality(Range(Delivered(SubSeq(page_log, 1, k)))) < num_movies
    /\ PageLoopOver =>
           LET first == FirstDelivered(Delivered(page_log))
           IN  IdsOf(movie_list) = SubSeq(first, 1, Min(num_movies, Len(first)))
    /\ crawl_pc = "done" =>
           /\ IdsOf(all_movies) = IdsOf(movie_list)
           /\ Len(all_movies) <= num_movies
           /\ \A m, n \in 1..Len(all_movies) :
                  m # n => all_movies[m].id # all_movies[n].id

\* C29 witness: 21 movies asked; page 1 lists 22 and 1, page 2 lists 1 to 21:
\* of the 22 movies collected 21 are returned, 22 and 1 first, 21 left out
C29_Witness ==
    /\ crawl_pc = "done"
    /\ num_movies = 21
    /\ Len(page_log) = 2
    /\ page_log[1].ids = <<22, 1>>
    /\ Len(page_log[2].ids) = 21
    /\ Cardinality(collected_ids) = 22
    /\ Len(all_movies) = 21
    /\ all_movies[1].id = 22
    /\ all_movies[2].id = 1
    /\ all_movies[3].id = 2
    /\ all_movies[21].id = 20

-----------------------------------------------------------------------------
(* The load stage of the recommender's main: the JSON corpus, then the CSV  *)
(* file, then the embedded sample.  The values of a template's profile are  *)
(* in hundredths, a rating is in tenths, a text is a sequence of fragments. *)

MaxRows == 2

\* movie_templates of load_sample_movies (the second one has a key that is
\* not one of the ten labels)
movie_templates ==
    << [id |-> "1", title |-> "xiaoshenke de jiushu", plot |-> <<"plot-1">>,
        genres |-> <<"juqing", "fanzui">>, year |-> "1994", rating |-> 93,
        emotion_profile |->
            <<Entry("hope", 35), Entry("inspiration", 25), Entry("sadness", 15),
              Entry("anger", 10), Entry("loneliness", 10), Entry("love", 5),
              Entry("joy", 0), Entry("fear", 0), Entry("tension", 0),
              Entry("peace", 0)>>,
        mood_tags |-> <<"chongman xiwang", "lizhi", "ganren", "jiushu">>,
        dominant_emotions |-> <<"hope", "inspiration">>],
       [id |-> "2", title |-> "xingji chuanyue", plot |-> <<"plot-2">>,
        genres |-> <<"kehuan", "maoxian", "juqing">>, year |-> "2014", rating |-> 92,
        emotion_profile |->
            <<Entry("hope", 30), Entry("love", 25), Entry("wonder", 20),
              Entry("loneliness", 15), Entry("fear", 10), Entry("sadness", 0),
              Entry("anger", 0), Entry("joy", 0), Entry("inspiration", 0),
              Entry("tension", 0), Entry("peace", 0)>>,
        mood_tags |-> <<"hongda xushi", "ganren zhishen", "kehuan shishi",
                        "funv qingshen">>,
        dominant_emotions |-> <<"hope", "love">>],
       [id |-> "3", title |-> "meili rensheng", plot |-> <<"plot-3">>,
        genres |-> <<"juqing", "xiju", "aiqing">>, year |-> "1997", rating |-> 95,
        emotion_profile |->
            <<Entry("love", 35), Entry("hope", 25), Entry("joy", 20),
              Entry("sadness", 20), Entry("fear", 0), Entry("anger", 0),
              Entry("loneliness", 0), Entry("inspiration", 0), Entry("tension", 0),
              Entry("peace", 0)>>,
        mood_tags |-> <<"ganren zhishen", "fuai rushan", "xiao zhong dai lei",
                        "xiwang zhi guang">>,
        dominant_emotions |-> <<"love", "hope">>] >>

\* the movie load_sample_movies builds of one template: the profile is
\* zero-filled to the ten labels, divided by its total and rounded
SampleMovie(template) ==
    LET full_emotion_profile == FixedEmotionProfile(Get(template, "emotion_profile", <<>>))
    IN  [id |-> template.id,
         title |-> template.title,
         original_title |-> Get(template, "original_title", template.title),
         year |-> template.year,
         plot |-> template.plot,
         tagline |-> Get(template, "tagline", <<>>),
         genres |-> template.genres,
         rating |-> template.rating,
         runtime |-> Get(template, "runtime", 120),
         emotion_profile |-> full_emotion_profile,
         mood_tags |-> template.mood_tags,
         dominant_emotions |-> template.dominant_emotions,
         emotional_complexity |->
             Cardinality({i \in 1..Len(full_emotion_profile) :
                             full_emotion_profile[i].v > 50}),
         source |-> "example"]

load_sample_movies == [i \in 1..Len(movie_templates) |-> SampleMovie(movie_templates[i])]

\* a cell of '|'-separated parts is the sequence of its parts; it holds a
\* '|' when it has two parts at least
SplitCell(cell) == IF Len(cell) >= 2 THEN cell ELSE <<>>

\* the emotion_vector cell is a sequence of "label:value" pairs
ParseEmotionVector(cell) ==
    LET parsed == DictAddAll(<<>>, cell)
    IN  IF parsed = <<>>
        THEN [i \in 1..Len(fixed_emotion_labels) |-> Entry(fixed_emotion_labels[i], 0)]
        ELSE parsed

\* the movie load_movies_from_csv builds of one row
CsvMovie(row) ==
    [id |-> Get(row, "movie_id", ""),
     title |-> Get(row, "title", ""),
     plot |-> Get(row, "plot", <<>>),
     genres |-> SplitCell(Get(row, "genres", <<>>)),
     year |-> Get(row, "year", ""),
     rating |-> Get(row, "rating", 0),
     emotion_profile |-> ParseEmotionVector(Get(row, "emotion_vector", <<>>)),
     mood_tags |-> SplitCell(Get(row, "mood_tags", <<>>)),
     dominant_emotions |-> SplitCell(Get(row, "dominant_emotions", <<>>)),
     source |-> "csv"]

\* two records as the builder exports them
ExportedRecords ==
    { MovieData(1, MovieInfo(278, <<"happy">>, 1), Details(<<>>, <<"sad">>, <<"Drama">>),
                <<>>, CHOOSE a \in analyze_movie_emotion(<<"happy">>, <<>>, <<"sad">>,
                                                         <<"Drama">>) : TRUE),
      MovieData(2, MovieInfo(238, <<>>, 2), NoDetails,
                <<>>, CHOOSE a \in analyze_movie_emotion(<<>>, <<>>, <<>>, <<>>) : TRUE) }

\* the records of a JSON corpus file: the exported ones and one with three
\* keys only
JsonRecordChoices ==
    ExportedRecords
        \cup { [id |-> 13, title |-> "title",
                emotion_profile |-> <<Entry("joy", 300), Entry("wonder", 500)>>] }

\* the text a movie id is written as
IdText(movie_id) ==
    CASE movie_id = 278 -> "278"
      [] movie_id = 238 -> "238"
      [] OTHER -> "id"

\* the cell of '|'.join(list) as it is read back: the parts of the text; the
\* empty text of an empty list is read as a missing value, one part
JoinCell(list) == IF list = <<>> THEN <<"nan">> ELSE list

\* get_emotion_vector_string: the three strongest "label:value" pairs
get_emotion_vector_string(emotion_profile) ==
    LET sorted_emotions == SortByValueDesc(emotion_profile)
    IN  SubSeq(sorted_emotions, 1, Min(3, Len(sorted_emotions)))

\* the row save_as_csv writes for a movie
save_as_csv(movie) ==
    [movie_id |-> IdText(movie.id),
     title |-> movie.title,
     original_title |-> Get(movie, "original_title", ""),
     plot |-> Get(movie, "overview", <<>>),
     genres |-> JoinCell(Get(movie, "genres", <<>>)),
     year |-> Get(movie, "release_year", ""),
     rating |-> Get(movie, "vote_average", 0),
     vote_count |-> Get(movie, "vote_count", 0),
     director |-> Get(movie, "director", ""),
     runtime |-> Get(movie, "runtime", 0),
     tagline |-> Get(movie, "tagline", <<>>),
     mood_tags |-> JoinCell(Get(movie, "mood_tags", <<>>)),
     dominant_emotions |-> JoinCell(Get(movie, "dominant_emotions", <<>>)),
     review_count |-> Get(movie, "review_count", 0),
     tmdb_top_rated_rank |-> Get(movie, "tmdb_top_rated_rank", 0)]

\* the row save_enhanced_csv writes for a movie (the columns the loader or
\* save_as_csv has)
save_enhanced_csv(movie) ==
    [movie_id |-> IdText(movie.id),
     title |-> movie.title,
     original_title |-> Get(movie, "original_title", ""),
     plot |-> Get(movie, "overview", <<>>),
     tagline |-> Get(movie, "tagline", <<>>),
     genres |-> JoinCell(Get(movie, "genres", <<>>)),
     year |-> Get(movie, "release_year", ""),
     rating |-> Get(movie, "vote_average", 0),
     runtime |-> Get(movie, "runtime", 0),
     director |-> Get(movie, "director", ""),
     tmdb_top_rated_rank |-> Get(movie, "tmdb_top_rated_rank", 0),
     mood_tags |-> JoinCell(Get(movie, "mood_tags", <<>>)),
     dominant_emotions |-> JoinCell(Get(movie, "dominant_emotions", <<>>)),
     emotional_complexity |-> Get(movie, "emotional_complexity", 0),
     review_count |-> Get(movie, "review_count", 0),
     vote_count |-> Get(movie, "vote_count", 0),
     emotion_vector |-> get_emotion_vector_string(Get(movie, "emotion_profile", <<>>))]

\* the rows of a CSV file: the rows the builder writes for the exported
\* records, and three other rows
CsvRowChoices ==
    {save_as_csv(m) : m \in ExportedRecords}
    \cup {save_enhanced_csv(m) : m \in ExportedRecords}
    \cup
    { [movie_id |-> "278", title |-> "title", plot |-> <<"happy">>,
       genres |-> <<"Drama", "Crime">>, year |-> "1994", rating |-> 87,
       emotion_vector |-> <<Entry("joy", 600), Entry("hope", 400)>>,
       mood_tags |-> <<"very-joy", "some-hope">>, dominant_emotions |-> <<"joy", "hope">>],
      [movie_id |-> "238", title |-> "title", plot |-> <<>>,
       genres |-> <<"Drama">>, year |-> "1972", rating |-> 87,
       emotion_vector |-> <<>>,
       mood_tags |-> <<>>, dominant_emotions |-> <<"sadness">>],
      [movie_id |-> "13", title |-> "title"] }

\* a file is missing, or reading it raises (it is not JSON, not a list of
\* objects, a cell is not a number), or it is read
FileChoices(records) ==
    {[state |-> "missing"], [state |-> "malformed"]}
        \cup {[state |-> "ok", data |-> d] : d \in SeqsUpTo(records, MaxRows)}

\* load_movies_from_json on a file: what it returns, what it prints on a
\* failure, and whether an exception leaves it
load_movies_from_json_without_fallback(file) ==
    IF file.state = "ok"
    THEN [movies |-> load_movies_from_json(file.data), log |-> <<>>, raised |-> FALSE]
    ELSE [movies |-> <<>>, log |-> <<"json failed", "using the sample">>,
          raised |-> FALSE]

load_movies_from_json_file(file) ==
    IF file.state = "ok"
    THEN [movies |-> load_movies_from_json(file.data), log |-> <<>>, raised |-> FALSE]
    ELSE [movies |-> load_sample_movies, log |-> <<"json failed", "using the sample">>,
          raised |-> FALSE]

\* load_movies_from_csv on a file
load_movies_from_csv(file) ==
    IF file.state = "ok"
    THEN [movies |-> [i \in 1..Len(file.data) |-> CsvMovie(file.data[i])],
          log |-> <<>>, raised |-> FALSE]
    ELSE [movies |-> <<>>, log |-> <<"csv failed">>, raised |-> FALSE]

LoadInit ==
    /\ ScorerIdle
    /\ TagsIdle
    /\ RecommenderInit
    /\ CrawlIdle
    /\ LoopIdle
    /\ json_file \in FileChoices(JsonRecordChoices)
    /\ csv_file \in FileChoices(CsvRowChoices)
    /\ loaded = <<>>
    /\ load_log = <<>>
    /\ load_pc = "json"

\* main: movies = recommender.load_movies_from_json(json_path)
LoadJson ==
    /\ load_pc = "json"
    /\ LET r == load_movies_from_json_file(json_file)
       IN  /\ loaded' = r.movies
           /\ load_log' = load_log \o r.log
           /\ load_pc' = IF r.raised THEN "raised"
                         ELSE IF r.movies = <<>> THEN "csv" ELSE "done"
    /\ UNCHANGED <<json_file, csv_file>>
    /\ UNCHANGED <<scorerVars, tagVars, searchVars, crawlVars, loopVars>>

\* main: if not movies: movies = recommender.load_movies_from_csv(csv_path)
LoadCsv ==
    /\ load_pc = "csv"
    /\ LET r == load_movies_from_csv(csv_file)
       IN  /\ loaded' = r.movies
           /\ load_log' = load_log \o r.log
           /\ load_pc' = IF r.raised THEN "raised"
                         ELSE IF r.movies = <<>> THEN "sample" ELSE "done"
    /\ UNCHANGED <<json_file, csv_file>>
    /\ UNCHANGED <<scorerVars, tagVars, searchVars, crawlVars, loopVars>>

\* main: if not movies: movies = recommender.load_sample_movies()
LoadSample ==
    /\ load_pc = "sample"
    /\ loaded' = load_sample_movies
    /\ load_pc' = "done"
    /\ UNCHANGED <<json_file, csv_file, load_log>>
    /\ UNCHANGED <<scorerVars, tagVars, searchVars, crawlVars, loopVars>>

LoadNext == LoadJson \/ LoadCsv \/ LoadSample

SpecLoad == LoadInit /\ [][LoadNext]_vars

LogHas(message) == \E n \in 1..Len(load_log) : load_log[n] = message

\* the load stage called load_movies_from_csv
CsvTried == json_file.state = "ok" /\ json_file.data = <<>>

CsvLoaded ==
    /\ load_pc = "done"
    /\ CsvTried
    /\ csv_file.state = "ok"
    /\ csv_file.data # <<>>

\* C30: for every record whose genres, mood_tags and dominant_emotions
\* lists, of any length, are written by save_as_csv or save_enhanced_csv and
\* reloaded by load_movies_from_csv, the reloaded lists equal the exported
\* lists.
C30_CsvListRoundTrip ==
    CsvLoaded =>
        \A i \in 1..Len(loaded) : \A m \in ExportedRecords :
            (csv_file.data[i] \in {save_as_csv(m), save_enhanced_csv(m)})
                => /\ loaded[i].genres = m.genres
                   /\ loaded[i].mood_tags = m.mood_tags
                   /\ loaded[i].dominant_emotions = m.dominant_emotions

-----------------------------------------------------------------------------
(* The interactive loop of main, on an indexed recommender.  An iteration   *)
(* reads the mode and the inputs of the mode, prints messages and makes at  *)
(* most one search call.  Weights are in tenths; a weight after the         *)
(* division by the total is the fraction num / den.                         *)

MaxPrompts == 3

\* what is typed where a number is asked: nothing, a number, or other text
TopKInputs == {[kind |-> "empty"], [kind |-> "number", val |-> 3]}
WeightInputs == {[kind |-> "empty"], [kind |-> "text"]}
                    \cup {[kind |-> "number", val |-> v] : v \in {0, 2, 5, 8}}
TextInputs == {<<>>, <<"dianying">>}

\* int(top_k) if top_k.isdigit() else 5
ParseTopK(inp) == IF inp.kind = "number" THEN inp.val ELSE 5

\* the pairs of an emotion-vector string: "joy:0.5", "sadness:1.5", "joy 0.5"
\* (no colon) and "hope:high" (no number)
PairChoices ==
    { [colon |-> TRUE, emotion |-> "joy", numeric |-> TRUE, value |-> 500],
      [colon |-> TRUE, emotion |-> "sadness", numeric |-> TRUE, value |-> 1500],
      [colon |-> FALSE, emotion |-> "joy", numeric |-> TRUE, value |-> 500],
      [colon |-> TRUE, emotion |-> "hope", numeric |-> FALSE, value |-> 0] }

EmotionInputs == SeqsUpTo(PairChoices, 2)

\* the parse of the emotion-vector string: a pair without ':' is skipped,
\* float() of text that is no number raises, a value is clamped to [0, 1]
RECURSIVE ParseEmotionInput(_, _)
ParseEmotionInput(target_emotions, pairs) ==
    IF pairs = <<>> THEN [error |-> FALSE, target_emotions |-> target_emotions]
    ELSE LET pair == Head(pairs)
         IN  IF ~pair.colon THEN ParseEmotionInput(target_emotions, Tail(pairs))
             ELSE IF ~pair.numeric
             THEN [error |-> TRUE, target_emotions |-> target_emotions]
             ELSE ParseEmotionInput(
                      DictPut(target_emotions, pair.emotion,
                              Max(0, Min(1000, pair.value))),
                      Tail(pairs))

\* one iteration of the loop that goes back to the prompt
Iteration(mode, input, logged, searched) ==
    /\ last' = [mode |-> mode, input |-> input, logged |-> logged,
                searched |-> searched, prompt_no |-> prompts]
    /\ prompts' = prompts + 1
    /\ loop_pc' = "prompt"

AtPrompt == loop_pc = "prompt" /\ prompts < MaxPrompts

LoopInit ==
    /\ ScorerIdle
    /\ TagsIdle
    /\ RecommenderInit
    /\ CrawlIdle
    /\ LoadIdle
    /\ loop_pc = "prompt"
    /\ prompts = 1
    /\ last = [mode |-> "none"]

\* mode quit, exit or q: break
Quit ==
    /\ loop_pc = "prompt"
    /\ loop_pc' = "exited"
    /\ last' = [mode |-> "quit"]
    /\ UNCHANGED prompts
    /\ UNCHANGED <<scorerVars, tagVars, searchVars, crawlVars, loadVars>>

\* KeyboardInterrupt at an input: break
Interrupt ==
    /\ loop_pc = "prompt"
    /\ loop_pc' = "exited"
    /\ last' = [mode |-> "interrupt"]
    /\ UNCHANGED prompts
    /\ UNCHANGED <<scorerVars, tagVars, searchVars, crawlVars, loadVars>>

\* mode 1: semantic search
Mode1 ==
    /\ AtPrompt
    /\ \E query \in TextInputs, top_k \in TopKInputs :
          IF query = <<>>
          THEN Iteration("1", [query |-> query], <<"query empty">>, <<>>)
          ELSE Iteration("1", [query |-> query, top_k |-> top_k], <<>>,
                         <<[op |-> "semantic_search", query |-> query,
                            top_k |-> ParseTopK(top_k)]>>)
    /\ UNCHANGED <<scorerVars, tagVars, searchVars, crawlVars, loadVars>>

\* mode 2: emotion search on the typed emotion vector
Mode2 ==
    /\ AtPrompt
    /\ \E emotion_input \in EmotionInputs, top_k \in TopKInputs :
          LET parsed == ParseEmotionInput(<<>>, emotion_input)
          IN  IF emotion_input = <<>>
              THEN Iteration("2", [emotion_input |-> emotion_input],
                             <<"emotion vector empty">>, <<>>)
              ELSE IF parsed.error
              THEN Iteration("2", [emotion_input |-> emotion_input],
                             <<"format error", "use the emotion:intensity format">>,
                             <<>>)
              ELSE Iteration("2", [emotion_input |-> emotion_input, top_k |-> top_k],
                             <<>>,
                             <<[op |-> "emotion_search",
                                target |-> [den |-> 1000,
                                            items |-> parsed.target_emotions],
                                top_k |-> ParseTopK(top_k)]>>)
    /\ UNCHANGED <<scorerVars, tagVars, searchVars, crawlVars, loadVars>>

\* float(semantic_weight) if semantic_weight else 0.7
ParseWeight(inp, default) == IF inp.kind = "empty" THEN default ELSE inp.val

\* mode 3: hybrid search with the typed weights; float() of text and the
\* division by a total of 0 raise, and the handler of the loop prints the
\* error
Mode3 ==
    /\ AtPrompt
    /\ \E query \in TextInputs, sw_input \in WeightInputs, ew_input \in WeightInputs,
          top_k \in TopKInputs :
          LET input == [query |-> query, semantic_weight |-> sw_input,
                        emotion_weight |-> ew_input, top_k |-> top_k]
              semantic_weight == ParseWeight(sw_input, 7)
              emotion_weight == ParseWeight(ew_input, 3)
              total == semantic_weight + emotion_weight
          IN  IF query = <<>>
              THEN Iteration("3", input, <<"query empty">>, <<>>)
              ELSE IF sw_input.kind = "text" \/ ew_input.kind = "text"
              THEN Iteration("3", input, <<"error">>, <<>>)
              ELSE IF total = 10
              THEN Iteration("3", input, <<>>,
                             <<[op |-> "hybrid_search", query |-> query,
                                semantic_weight |-> [num |-> semantic_weight, den |-> 10],
                                emotion_weight |-> [num |-> emotion_weight, den |-> 10],
                                top_k |-> ParseTopK(top_k)]>>)
              ELSE IF total = 0
              THEN Iteration("3", input, <<"weights adjusted", "error">>, <<>>)
              ELSE Iteration("3", input, <<"weights adjusted">>,
                             <<[op |-> "hybrid_search", query |-> query,
                                semantic_weight |-> [num |-> semantic_weight,
                                                     den |-> total],
                                emotion_weight |-> [num |-> emotion_weight,
                                                    den |-> total],
                                top_k |-> ParseTopK(top_k)]>>)
    /\ UNCHANGED <<scorerVars, tagVars, searchVars, crawlVars, loadVars>>

\* mode 4: recommendation by mood
Mode4 ==
    /\ AtPrompt
    /\ \E mood \in TextInputs, top_k \in TopKInputs :
          IF mood = <<>>
          THEN Iteration("4", [mood |-> mood], <<"mood empty">>, <<>>)
          ELSE Iteration("4", [mood |-> mood, top_k |-> top_k], <<>>,
                         <<[op |-> "get_recommendation_by_mood", mood |-> mood,
                            top_k |-> ParseTopK(top_k)]>>)
    /\ UNCHANGED <<scorerVars, tagVars, searchVars, crawlVars, loadVars>>

\* any other mode
InvalidMode ==
    /\ AtPrompt
    /\ Iteration("other", [mode |-> "other"], <<"invalid mode">>, <<>>)
    /\ UNCHANGED <<scorerVars, tagVars, searchVars, crawlVars, loadVars>>

LoopNext == Quit \/ Interrupt \/ Mode1 \/ Mode2 \/ Mode3 \/ Mode4 \/ InvalidMode

SpecLoop == LoopInit /\ [][LoopNext]_vars

\* a pair without ':' or with an intensity that is no number
Malformed(emotion_input) ==
    \E n \in 1..Len(emotion_input) :
        ~emotion_input[n].colon \/ ~emotion_input[n].numeric

Logged(message) == \E n \in 1..Len(last.logged) : last.logged[n] = message

\* C22: in mode 2, for every malformed emotion-vector string (a pair
\* without ':' or with a non-numeric intensity) a format error is logged, no
\* emotion search is run for the input, and the mode prompt is issued again:
\* the loop does not terminate.
C22_MalformedVectorRejected ==
    (last.mode = "2" /\ Malformed(last.input.emotion_input)) =>
        /\ Logged("format error")
        /\ last.searched = <<>>
        /\ loop_pc = "prompt"
        /\ prompts = last.prompt_no + 1

\* C23: in mode 3, a pair of entered weights that does not sum to 1 is not
\* rejected: both weights are divided by their total and hybrid_search is
\* run with weights that sum to 1 and keep the entered ratio.
C23_WeightsRenormalized ==
    (/\ last.mode = "3"
     /\ last.input.query # <<>>
     /\ last.input.semantic_weight.kind = "number"
     /\ last.input.emotion_weight.kind = "number"
     /\ last.input.semantic_weight.val + last.input.emotion_weight.val # 10) =>
        /\ Len(last.searched) = 1
        /\ LET searched == last.searched[1]
               sw == searched.semantic_weight
               ew == searched.emotion_weight
           IN  /\ searched.op = "hybrid_search"
               /\ sw.den = ew.den
               /\ sw.num + ew.num = sw.den
               /\ sw.num * last.input.emotion_weight.val
                      = ew.num * last.input.semantic_weight.val

====
